---- MODULE Spec2Model ----
(***************************************************************************)
(* A model of the rustyflow-iot telemetry pipeline:                        *)
(*   - api-server: the telemetry cache handlers of routes/sensors.rs       *)
(*     (add_sensor_data, list_sensors, get_all_sensors_from_redis) over    *)
(*     the AppState of state.rs; the /v1/media handlers of routes/media.rs *)
(*     over the in-memory media map, and shared-types' Media;              *)
(*   - mqtt-gateway: the receive loop of main and handle_message, and      *)
(*     main's startup, connection and subscriptions with the broker;       *)
(*   - edge-agent: the mock sensors, the tick loop and the pump task.      *)
(* Floating point values are kept as integers in hundredths (24.10 is      *)
(* 2410); the text of a Reading's value is a sequence of characters.       *)
(***************************************************************************)
EXTENDS Integers, Sequences, FiniteSets, TLC

VARIABLES
    redis,        \* AppState.redis: "Some" or "None", fixed at startup
    db,           \* AppState.db: "Some" or "None", fixed at startup
    redisStore,   \* the remote store: key -> [json, expireAt]
    media_store,  \* AppState.media_store: id -> Media
    dbTable,      \* the relational table media_datas: id -> Media
    now,          \* the clock, in seconds
    nOps,         \* requests served and clock advances so far
    nWrites,      \* POST /api/sensors requests served
    writeResp,    \* the last POST /api/sensors request and its response
    nMedia,       \* POST /v1/media requests served
    mediaResp,    \* the status of the last POST /v1/media
    listPc,       \* position of the GET /api/sensors request: idle, fetching, done
    listKeys,     \* keys of the scan not fetched yet
    listAcc,      \* the sensors vector of get_all_sensors_from_redis
    listFetched,  \* records whose fetch and decode succeeded in this request
    listDirty,    \* keys written since this request started
    listScan,     \* the scan of this request: whether it succeeded, and its keys
    listFailed,   \* the key whose fetch failed in this request, if any
    listAfterWrite, \* whether a POST /api/sensors had been served when this request started
    lastWriteAt,  \* for each key, the time of the last write the store acknowledged
    replaced,     \* whether a write has replaced a different record of its own pair
    listResp,     \* the response of the last GET /api/sensors
    gwPc,         \* the gateway's receive loop: poll, post (a POST is in flight), sleep
    inbox,        \* the publishes the gateway has polled so far, in order
    posts,        \* the POSTs the gateway has issued: [msg: index in inbox, record]
    postOutcome,  \* how the last POST ended
    inFlight,     \* the POSTs (indexes in posts) issued and not ended yet
    sleepFor,     \* the duration of the last sleep after a connection error, in seconds
    nErrors,      \* connection errors in a row since the last publish was polled
    mqtt_topics,  \* gateway Config.mqtt_topics: the comma-separated items, each a filter or empty
    linkPc,       \* the gateway's main: subscribe (the subscribe loop), loop (the receive loop)
    subIdx,       \* subscribe calls that have returned
    requests,     \* the requests waiting in the gateway client's request channel
    network,      \* the gateway event loop's connection: none, up
    brokerSubs,   \* the filters the broker holds for the gateway's session
    deliveries,   \* publishes the broker has routed to the gateway and not delivered yet
    nPublished,   \* readings published to the broker so far
    sinkWrites,   \* the readings written into the cache, in order
    nLinkErrors,  \* connection errors of the gateway's event loop so far
    sensors,      \* the edge agent's SensorController: the running value of each sensor
    agentPc,      \* the edge agent's tick task: tick (at timer.tick()), publish (in the for loop)
    pending,      \* the SensorData of this tick not published yet
    lastRead,     \* the vector the last read_all() returned
    submitted,    \* the publishes submitted to the client in this tick
    agentRequests, \* the requests waiting in the edge agent client's request channel
    pumpPc,       \* the edge agent's pump task: poll, sleep
    nReads,       \* read_all() calls so far
    sharedMedia,  \* a shared-types Media object
    mediaOp,      \* the last media operation: the request and its response
    returned,     \* id -> the item create or update last returned, until its delete
    deleted,      \* the ids whose delete returned 204
    updates       \* the PUT /v1/media/{id} requests of two clients, step by step

cacheVars == <<lastWriteAt, replaced, redis, db, redisStore, media_store, dbTable, now, nOps, nWrites, writeResp, nMedia, mediaResp, listPc, listKeys, listAcc, listFetched, listDirty, listScan, listFailed, listAfterWrite, listResp>>

gwVars == <<gwPc, inbox, posts, postOutcome, inFlight, sleepFor, nErrors>>

linkVars == <<mqtt_topics, linkPc, subIdx, requests, network, brokerSubs, deliveries, nPublished, sinkWrites, nLinkErrors>>

agentVars == <<sensors, agentPc, pending, lastRead, submitted, agentRequests, pumpPc, nReads>>

mediaVars == <<sharedMedia, mediaOp, returned, deleted, updates>>

vars == <<cacheVars, gwVars, linkVars, agentVars, mediaVars>>

\* What the handlers of one process leave alone: the state of the others.
outsideCache == <<gwVars, linkVars, agentVars, mediaVars>>
outsideGateway == <<cacheVars, linkVars, agentVars, mediaVars>>
outsideLink == <<cacheVars, gwVars, agentVars, mediaVars>>
outsideAgent == <<cacheVars, gwVars, linkVars, mediaVars>>

-----------------------------------------------------------------------------
(* Bounds of the model *)

MaxOps == 5
MaxMedia == 1
MaxMsgs == 2
MaxErrors == 2
MaxHandled == 2
MaxFilters == 11
MaxReadings == 2
MaxTicks == 4
MaxReads == 6

-----------------------------------------------------------------------------
(* Program constants *)

TTL_SECS == 3600
REDIS_KEY_PREFIX == "sensor:"

OK == 200
CREATED == 201
NO_CONTENT == 204
NOT_FOUND == 404
BAD_REQUEST == 400
INTERNAL_SERVER_ERROR == 500
SERVICE_UNAVAILABLE == 503

\* Option: None, or Some(x).
None == <<>>
Some(x) == <<x>>

-----------------------------------------------------------------------------
(* JSON values: a tagged value per JSON type; an object is a function from *)
(* its member names to JSON values.                                        *)

JNull == <<"null">>
JStr(s) == <<"str", s>>
JNum(n) == <<"num", n>>
JObj(f) == <<"obj", f>>
JBool(b) == <<"bool", b>>
IsJStr(j) == j[1] = "str"
IsJNum(j) == j[1] = "num"
IsJObj(j) == j[1] = "obj"
IsJBool(j) == j[1] = "bool"
HasMember(j, name) == IsJObj(j) /\ name \in DOMAIN j[2]

Range(s) == {s[i] : i \in DOMAIN s}

\* The unit table of the gateway; the records of the model take their unit from it.
\* Mutant of UnitFor: the temperature row carries the publisher's label.
UnitFor_publisher_label(sensor_type) ==
    CASE sensor_type = "temperature" -> "celsius"
      [] sensor_type = "humidity" -> "%"
      [] sensor_type = "motion" -> "bool"
      [] OTHER -> ""

UnitFor(sensor_type) ==
    CASE sensor_type = "temperature" -> "°C"
      [] sensor_type = "humidity" -> "%"
      [] sensor_type = "motion" -> "bool"
      [] OTHER -> ""

-----------------------------------------------------------------------------
(* api-server: SensorData and its JSON form *)

\* serde_json::to_string(&SensorData) of the api-server: every field is written,
\* metadata None as null (the struct has no skip_serializing_if).
SensorDataToJson(data) ==
    JObj([device_id |-> JStr(data.device_id),
          sensor_type |-> JStr(data.sensor_type),
          value |-> JNum(data.value),
          unit |-> JStr(data.unit),
          timestamp |-> JStr(data.timestamp),
          metadata |-> IF data.metadata = None THEN JNull ELSE data.metadata])

\* serde_json::from_str::<SensorData>: the five required members with their types;
\* metadata is an Option: absent or null is None.
SensorDataFromJson(j) ==
    IF /\ IsJObj(j)
       /\ \A m \in {"device_id", "sensor_type", "unit", "timestamp"} : HasMember(j, m) /\ IsJStr(j[2][m])
       /\ HasMember(j, "value") /\ IsJNum(j[2]["value"])
    THEN [ok |-> TRUE,
          data |-> [device_id |-> j[2]["device_id"][2],
                    sensor_type |-> j[2]["sensor_type"][2],
                    value |-> j[2]["value"][2],
                    unit |-> j[2]["unit"][2],
                    timestamp |-> j[2]["timestamp"][2],
                    metadata |-> IF HasMember(j, "metadata") /\ j[2]["metadata"] # JNull
                                 THEN j[2]["metadata"] ELSE None]]
    ELSE [ok |-> FALSE]

\* The bodies POSTed to /api/sensors in the model.
CachePairs == {<<"edge-01", "temperature">>, <<"edge-01", "x:temperature">>, <<"edge-01:x", "temperature">>}
CacheValues == {0, 2410}
CacheRecords ==
    {[device_id |-> p[1], sensor_type |-> p[2], value |-> v, unit |-> UnitFor(p[2]),
      timestamp |-> "2024-01-20T10:30:00+00:00", metadata |-> None] : p \in CachePairs, v \in CacheValues}

\* Mutant of redis_key: the key also carries the value, so that every distinct
\* record of a pair gets a key of its own.
redis_key_with_value(data) == REDIS_KEY_PREFIX \o data.device_id \o ":" \o data.sensor_type \o ":" \o ToString(data.value)

\* format!("{}{}:{}", REDIS_KEY_PREFIX, data.device_id, data.sensor_type)
redis_key(data) == REDIS_KEY_PREFIX \o data.device_id \o ":" \o data.sensor_type

\* SETEX key seconds value: the key holds the value and expires `seconds` after t.
\* Mutant of set_ex: a live key keeps the expiry time it has.
set_ex_keep_expiry(store, key, json, seconds, t) ==
    [k \in DOMAIN store \cup {key} |->
        IF k = key
        THEN [json |-> json, expireAt |-> IF key \in DOMAIN store /\ t < store[key].expireAt THEN store[key].expireAt ELSE t + seconds]
        ELSE store[k]]

set_ex(store, key, json, seconds, t) ==
    [k \in DOMAIN store \cup {key} |-> IF k = key THEN [json |-> json, expireAt |-> t + seconds] ELSE store[k]]

\* A key is live until its expiry time is reached.
IsLive(store, key, t) == key \in DOMAIN store /\ t < store[key].expireAt

\* KEYS sensor:* : the live keys that start with the prefix (every key of the
\* model's store does).
keys(store, t) == {k \in DOMAIN store : IsLive(store, k, t)}

\* Mutant of add_sensor_data: without a connection the record is kept in the
\* in-memory map and the request answered as stored.
add_sensor_data_fallback(redisOpt, store, media, t, data, serOk, setOk) ==
    IF redisOpt = "Some"
    THEN IF serOk
         THEN IF setOk
              THEN [status |-> OK, failure |-> "none", redisStore |-> set_ex(store, redis_key(data), SensorDataToJson(data), TTL_SECS, t), media_store |-> media]
              ELSE [status |-> INTERNAL_SERVER_ERROR, failure |-> "backend", redisStore |-> store, media_store |-> media]
         ELSE [status |-> BAD_REQUEST, failure |-> "serialization", redisStore |-> store, media_store |-> media]
    ELSE [status |-> OK, failure |-> "none", redisStore |-> store, media_store |-> [k \in DOMAIN media \cup {redis_key(data)} |-> IF k = redis_key(data) THEN data ELSE media[k]]]

\* POST /api/sensors. serOk: serde_json::to_string returned Ok; setOk: the SETEX
\* reached the store and was acknowledged. failure names the arm that answered:
\* none, serialization, backend (the SETEX failed), unavailable (no connection).
add_sensor_data(redisOpt, store, media, t, data, serOk, setOk) ==
    IF redisOpt = "Some"
    THEN IF serOk
         THEN IF setOk
              THEN [status |-> OK, failure |-> "none", redisStore |-> set_ex(store, redis_key(data), SensorDataToJson(data), TTL_SECS, t), media_store |-> media]
              ELSE [status |-> INTERNAL_SERVER_ERROR, failure |-> "backend", redisStore |-> store, media_store |-> media]
         ELSE [status |-> BAD_REQUEST, failure |-> "serialization", redisStore |-> store, media_store |-> media]
    ELSE [status |-> SERVICE_UNAVAILABLE, failure |-> "unavailable", redisStore |-> store, media_store |-> media]

\* Mutant of list_sensors: a failed read of the remote store is answered with an
\* error status.
list_sensors_error_status(redisOpt, res) ==
    IF redisOpt = "Some"
    THEN IF res.ok THEN [status |-> OK, body |-> res.sensors]
         ELSE [status |-> INTERNAL_SERVER_ERROR, body |-> <<>>]
    ELSE [status |-> OK, body |-> <<>>]

\* GET /api/sensors: the response for the result of get_all_sensors_from_redis
\* ("Unavailable" when AppState.redis is None, [ok |-> FALSE] for Err).
list_sensors(redisOpt, res) ==
    IF redisOpt = "Some"
    THEN IF res.ok THEN [status |-> OK, body |-> res.sensors]
         ELSE [status |-> OK, body |-> <<>>]
    ELSE [status |-> OK, body |-> <<>>]

\* conn.get(&key) into a String: Err on a transport error and on nil (the key is
\* not live), the stored text otherwise.
redis_get(store, key, t, getOk) ==
    IF getOk /\ IsLive(store, key, t) THEN [ok |-> TRUE, json |-> store[key].json] ELSE [ok |-> FALSE]

\* The bodies POSTed to /v1/media in the model.
MediaBodies == {[name |-> "test.jpg", path |-> "/uploads/test.jpg"]}

\* INSERT ... RETURNING / map.insert of a table or map keyed by id.
Insert(map, id, item) == [k \in DOMAIN map \cup {id} |-> IF k = id THEN item ELSE map[k]]

\* POST /v1/media. id: the fresh Uuid::new_v4(); dbOk: the INSERT succeeded.
create_media(dbOpt, table, media, id, body, dbOk) ==
    LET item == [id |-> id, name |-> body.name, path |-> body.path] IN
    IF dbOpt = "Some"
    THEN IF dbOk
         THEN [status |-> CREATED, body |-> Some(item), dbTable |-> Insert(table, id, item), media_store |-> media]
         ELSE [status |-> INTERNAL_SERVER_ERROR, body |-> None, dbTable |-> table, media_store |-> media]
    ELSE [status |-> CREATED, body |-> Some(item), dbTable |-> table, media_store |-> Insert(media, id, item)]

\* map.remove / DELETE of one id.
Remove(map, id) == [k \in DOMAIN map \ {id} |-> map[k]]

\* GET /v1/media/{id}. dbOk: the SELECT succeeded.
get_media(dbOpt, table, media, id, dbOk) ==
    IF dbOpt = "Some"
    THEN IF ~dbOk
         THEN [status |-> INTERNAL_SERVER_ERROR, body |-> None]
         ELSE IF id \in DOMAIN table
              THEN [status |-> OK, body |-> Some(table[id])]
              ELSE [status |-> NOT_FOUND, body |-> None]
    ELSE IF id \in DOMAIN media
         THEN [status |-> OK, body |-> Some(media[id])]
         ELSE [status |-> NOT_FOUND, body |-> None]

\* The UpdateMedia bodies PUT to /v1/media/{id} in the model: each field is
\* null (None) or a new text.
MediaPatches ==
    [name : {None, Some("new-name.jpg")}, path : {None, Some("/uploads/new.jpg")}]

\* patch.f.unwrap_or(current.f) / if let Some(v) = patch.f { item.f = v; }
unwrap_or(opt, default) == IF opt = None THEN default ELSE opt[1]

\* update_media, step 1 on the database: SELECT ... WHERE id = $1 with
\* fetch_optional; Err gives 500, no row gives 404.
update_select(table, id, dbOk) ==
    IF ~dbOk THEN [status |-> INTERNAL_SERVER_ERROR, current |-> None]
    ELSE IF id \in DOMAIN table THEN [status |-> OK, current |-> Some(table[id])]
    ELSE [status |-> NOT_FOUND, current |-> None]

\* update_media, steps 2 and 3 on the database: the new name and path are the
\* patch's or those of the row read in step 1, and UPDATE ... SET name = $1,
\* path = $2 WHERE id = $3 RETURNING with fetch_one; Err gives 500, and so does
\* no row (fetch_one's RowNotFound).
update_write(table, id, patch, current, dbOk) ==
    LET new_name == unwrap_or(patch.name, current.name)
        new_path == unwrap_or(patch.path, current.path)
    IN IF ~dbOk \/ id \notin DOMAIN table
       THEN [status |-> INTERNAL_SERVER_ERROR, body |-> None, dbTable |-> table]
       ELSE LET updated == [id |-> id, name |-> new_name, path |-> new_path] IN
            [status |-> OK, body |-> Some(updated), dbTable |-> Insert(table, id, updated)]

\* PUT /v1/media/{id} served without any other request in between. dbOk: the
\* SELECT and the UPDATE succeeded.
update_media(dbOpt, table, media, id, patch, dbOk) ==
    IF dbOpt = "Some"
    THEN LET sel == update_select(table, id, dbOk) IN
         IF sel.status # OK
         THEN [status |-> sel.status, body |-> None, dbTable |-> table, media_store |-> media]
         ELSE LET w == update_write(table, id, patch, sel.current[1], dbOk) IN
              [status |-> w.status, body |-> w.body, dbTable |-> w.dbTable, media_store |-> media]
    ELSE IF id \in DOMAIN media
         THEN LET item == [media[id] EXCEPT !.name = unwrap_or(patch.name, @),
                                            !.path = unwrap_or(patch.path, @)] IN
              [status |-> OK, body |-> Some(item), dbTable |-> table, media_store |-> Insert(media, id, item)]
         ELSE [status |-> NOT_FOUND, body |-> None, dbTable |-> table, media_store |-> media]

\* The mutated delete_media: answers 204 and leaves the entry in the map.
delete_media_keep(dbOpt, table, media, id, dbOk) ==
    IF dbOpt = "None" /\ id \in DOMAIN media
    THEN [status |-> NO_CONTENT, dbTable |-> table, media_store |-> media]
    ELSE [status |-> NOT_FOUND, dbTable |-> table, media_store |-> media]

\* DELETE /v1/media/{id}. dbOk: the DELETE succeeded.
delete_media(dbOpt, table, media, id, dbOk) ==
    IF dbOpt = "Some"
    THEN IF ~dbOk
         THEN [status |-> INTERNAL_SERVER_ERROR, dbTable |-> table, media_store |-> media]
         ELSE IF id \in DOMAIN table
              THEN [status |-> NO_CONTENT, dbTable |-> Remove(table, id), media_store |-> media]
              ELSE [status |-> NOT_FOUND, dbTable |-> table, media_store |-> media]
    ELSE IF id \in DOMAIN media
         THEN [status |-> NO_CONTENT, dbTable |-> table, media_store |-> Remove(media, id)]
         ELSE [status |-> NOT_FOUND, dbTable |-> table, media_store |-> media]

\* shared-types Media::new: created_at and updated_at are the same Utc::now().
Media_new(id, name, path, mime_type, size_bytes, t) ==
    [id |-> id, name |-> name, path |-> path, mime_type |-> mime_type,
     size_bytes |-> size_bytes, created_at |-> t, updated_at |-> t]

\* The shared-types UpdateMedia values of the model: each field is None or a
\* new value.
SharedPatches ==
    [name : {None, Some("new-name.jpg")}, path : {None, Some("/uploads/new.jpg")},
     mime_type : {None, Some("image/png")}, size_bytes : {None, Some(2048)}]

\* The mutated apply_update: an absent path empties the path.
apply_update_clear_absent(self, update, t) ==
    [self EXCEPT !.name = unwrap_or(update.name, @),
                 !.path = unwrap_or(update.path, ""),
                 !.mime_type = unwrap_or(update.mime_type, @),
                 !.size_bytes = unwrap_or(update.size_bytes, @),
                 !.updated_at = t]

\* shared-types Media::apply_update at time t = Utc::now().
apply_update(self, update, t) ==
    [self EXCEPT !.name = unwrap_or(update.name, @),
                 !.path = unwrap_or(update.path, @),
                 !.mime_type = unwrap_or(update.mime_type, @),
                 !.size_bytes = unwrap_or(update.size_bytes, @),
                 !.updated_at = t]

\* The orders in which KEYS may return a set of keys.
Orders(S) == {s \in [1..Cardinality(S) -> S] : \A i, j \in 1..Cardinality(S) : i # j => s[i] # s[j]}

-----------------------------------------------------------------------------
(* api-server: actions *)

AddSensorData ==
    /\ nOps < MaxOps
    /\ nOps' = nOps + 1
    /\ \E data \in CacheRecords, serOk \in BOOLEAN, setOk \in BOOLEAN :
         LET r == add_sensor_data(redis, redisStore, media_store, now, data, serOk, setOk) IN
         /\ redisStore' = r.redisStore
         /\ media_store' = r.media_store
         /\ writeResp' = Some([status |-> r.status, failure |-> r.failure])
         /\ lastWriteAt' = IF r.status = OK /\ redis = "Some" THEN Insert(lastWriteAt, redis_key(data), now) ELSE lastWriteAt
         /\ listDirty' = IF listPc # "idle" /\ r.redisStore # redisStore
                         THEN listDirty \cup {redis_key(data)} ELSE listDirty
         /\ replaced' = (\/ replaced
                         \/ /\ r.status = OK
                            /\ redis_key(data) \in DOMAIN redisStore
                            /\ SensorDataFromJson(redisStore[redis_key(data)].json).data # data
                            /\ SensorDataFromJson(redisStore[redis_key(data)].json).data.device_id = data.device_id
                            /\ SensorDataFromJson(redisStore[redis_key(data)].json).data.sensor_type = data.sensor_type)
    /\ nWrites' = nWrites + 1
    /\ UNCHANGED <<redis, db, dbTable, now, nMedia, mediaResp, listPc, listKeys, listAcc, listFetched, listScan, listFailed, listAfterWrite, listResp>>
    /\ UNCHANGED outsideCache

\* get_all_sensors_from_redis up to the key scan, or the whole of list_sensors
\* when there is no connection or the scan fails.
ListKeys ==
    /\ listPc \in {"idle", "done"}
    /\ nOps < MaxOps
    /\ nOps' = nOps + 1
    /\ listFetched' = {}
    /\ listDirty' = {}
    /\ listAcc' = <<>>
    /\ listFailed' = None
    /\ listAfterWrite' = (nWrites > 0)
    /\ \/ /\ redis = "None"
          /\ listPc' = "done"
          /\ listKeys' = <<>>
          /\ listScan' = [ok |-> FALSE, keys |-> {}]
          /\ listResp' = list_sensors(redis, [ok |-> FALSE])
       \/ /\ redis = "Some"
          /\ listPc' = "done"
          /\ listKeys' = <<>>
          /\ listScan' = [ok |-> FALSE, keys |-> {}]
          /\ listResp' = list_sensors(redis, [ok |-> FALSE])
       \/ /\ redis = "Some"
          /\ \E order \in Orders(keys(redisStore, now)) : listKeys' = order
          /\ listScan' = [ok |-> TRUE, keys |-> keys(redisStore, now)]
          /\ listPc' = "fetching"
          /\ listResp' = None
    /\ UNCHANGED <<lastWriteAt, replaced, redis, db, redisStore, media_store, dbTable, now, nWrites, writeResp, nMedia, mediaResp>>
    /\ UNCHANGED outsideCache

\* One turn of the loop over the scanned keys: fetch, decode, push.
ListGet ==
    /\ listPc = "fetching"
    /\ listKeys # <<>>
    /\ \E getOk \in BOOLEAN :
         LET got == redis_get(redisStore, Head(listKeys), now, getOk)
             dec == IF got.ok THEN SensorDataFromJson(got.json) ELSE [ok |-> FALSE]
         IN
         IF got.ok
         THEN /\ listAcc' = IF dec.ok THEN Append(listAcc, dec.data) ELSE listAcc
              /\ listFetched' = IF dec.ok THEN listFetched \cup {dec.data} ELSE listFetched
              /\ listKeys' = Tail(listKeys)
              /\ listFailed' = None
              /\ listPc' = "fetching"
              /\ listResp' = None
         ELSE /\ listAcc' = <<>>
              /\ listFailed' = Some(Head(listKeys))
              /\ listFetched' = listFetched
              /\ listKeys' = <<>>
              /\ listPc' = "done"
              /\ listResp' = list_sensors(redis, [ok |-> FALSE])
    /\ UNCHANGED <<lastWriteAt, replaced, redis, db, redisStore, media_store, dbTable, now, nOps, nWrites, writeResp, nMedia, mediaResp, listDirty, listScan, listAfterWrite>>
    /\ UNCHANGED outsideCache

\* The loop is over: Ok(sensors), answered by list_sensors.
ListReturn ==
    /\ listPc = "fetching"
    /\ listKeys = <<>>
    /\ listPc' = "done"
    /\ listResp' = list_sensors(redis, [ok |-> TRUE, sensors |-> listAcc])
    /\ UNCHANGED <<lastWriteAt, replaced, redis, db, redisStore, media_store, dbTable, now, nOps, nWrites, writeResp, nMedia, mediaResp, listKeys, listAcc, listFetched, listDirty, listScan, listFailed, listAfterWrite>>
    /\ UNCHANGED outsideCache

CreateMedia ==
    /\ nOps < MaxOps
    /\ nMedia < MaxMedia
    /\ nOps' = nOps + 1
    /\ \E body \in MediaBodies, dbOk \in BOOLEAN :
         LET r == create_media(db, dbTable, media_store, nMedia + 1, body, dbOk) IN
         /\ dbTable' = r.dbTable
         /\ media_store' = r.media_store
         /\ mediaResp' = r.status
         /\ mediaOp' = [op |-> "create", id |-> nMedia + 1, patch |-> None, status |-> r.status, body |-> r.body]
         /\ returned' = IF r.status = CREATED THEN Insert(returned, nMedia + 1, r.body[1]) ELSE returned
    /\ nMedia' = nMedia + 1
    /\ UNCHANGED <<lastWriteAt, replaced, redis, db, redisStore, now, nWrites, writeResp, listPc, listKeys, listAcc, listFetched, listDirty, listScan, listFailed, listAfterWrite, listResp>>
    /\ UNCHANGED <<gwVars, linkVars, agentVars, sharedMedia, deleted, updates>>

\* What the /v1/media handlers leave alone of the telemetry cache.
telemetryVars == <<lastWriteAt, replaced, redis, db, redisStore, nWrites, writeResp, nMedia, mediaResp, listPc, listKeys, listAcc, listFetched, listDirty, listScan, listFailed, listAfterWrite, listResp>>

\* The clients whose PUT requests may be served at the same time.
Clients == {"a", "b"}

\* The ids requested: every id created so far and one never created.
MediaIds == 1..(MaxMedia + 1)

GetMedia ==
    /\ nOps < MaxOps
    /\ nOps' = nOps + 1
    /\ \E id \in MediaIds, dbOk \in BOOLEAN :
         LET r == get_media(db, dbTable, media_store, id, dbOk) IN
         mediaOp' = [op |-> "get", id |-> id, patch |-> None, status |-> r.status, body |-> r.body]
    /\ UNCHANGED <<media_store, dbTable, returned, deleted, sharedMedia, updates>>
    /\ UNCHANGED <<now, telemetryVars, gwVars, linkVars, agentVars>>

UpdateMedia ==
    /\ nOps < MaxOps
    /\ nOps' = nOps + 1
    /\ \E id \in MediaIds, patch \in MediaPatches, dbOk \in BOOLEAN :
         LET r == update_media(db, dbTable, media_store, id, patch, dbOk) IN
         /\ dbTable' = r.dbTable
         /\ media_store' = r.media_store
         /\ mediaOp' = [op |-> "update", id |-> id, patch |-> Some(patch), status |-> r.status, body |-> r.body]
         /\ returned' = IF r.status = OK THEN Insert(returned, id, r.body[1]) ELSE returned
    /\ UNCHANGED <<deleted, sharedMedia, updates>>
    /\ UNCHANGED <<now, telemetryVars, gwVars, linkVars, agentVars>>

DeleteMedia ==
    /\ nOps < MaxOps
    /\ nOps' = nOps + 1
    /\ \E id \in MediaIds, dbOk \in BOOLEAN :
         LET r == delete_media(db, dbTable, media_store, id, dbOk) IN
         /\ dbTable' = r.dbTable
         /\ media_store' = r.media_store
         /\ mediaOp' = [op |-> "delete", id |-> id, patch |-> None, status |-> r.status, body |-> None]
         /\ returned' = IF r.status = NO_CONTENT THEN Remove(returned, id) ELSE returned
         /\ deleted' = IF r.status = NO_CONTENT THEN deleted \cup {id} ELSE deleted
    /\ UNCHANGED <<sharedMedia, updates>>
    /\ UNCHANGED <<now, telemetryVars, gwVars, linkVars, agentVars>>

\* PUT /v1/media/{id} of client c begins. Without a database the whole
\* handler runs under the map's write lock; with one, the SELECT runs.
UpdateBegin ==
    /\ nOps < MaxOps
    /\ nOps' = nOps + 1
    /\ \E c \in Clients, id \in MediaIds, patch \in MediaPatches, dbOk \in BOOLEAN :
         /\ updates[c].pc = "idle"
         /\ IF db = "Some"
            THEN LET sel == update_select(dbTable, id, dbOk) IN
                 /\ updates' = [updates EXCEPT ![c] =
                        IF sel.status = OK
                        THEN [pc |-> "selected", id |-> id, patch |-> patch, current |-> sel.current[1]]
                        ELSE [pc |-> "done", id |-> id, patch |-> patch, status |-> sel.status, gone |-> FALSE]]
                 /\ UNCHANGED <<media_store, dbTable>>
            ELSE LET r == update_media(db, dbTable, media_store, id, patch, dbOk) IN
                 /\ updates' = [updates EXCEPT ![c] =
                        [pc |-> "done", id |-> id, patch |-> patch, status |-> r.status, gone |-> FALSE]]
                 /\ media_store' = r.media_store
                 /\ dbTable' = r.dbTable
    /\ UNCHANGED <<mediaOp, returned, deleted, sharedMedia>>
    /\ UNCHANGED <<now, telemetryVars, gwVars, linkVars, agentVars>>

\* The UPDATE of client c's request runs, with the row its SELECT returned.
UpdateWrite ==
    /\ \E c \in Clients, dbOk \in BOOLEAN :
         /\ updates[c].pc = "selected"
         /\ LET w == update_write(dbTable, updates[c].id, updates[c].patch, updates[c].current, dbOk) IN
            /\ dbTable' = w.dbTable
            /\ updates' = [updates EXCEPT ![c] =
                   [pc |-> "done", id |-> updates[c].id, patch |-> updates[c].patch, status |-> w.status,
                    gone |-> updates[c].id \notin DOMAIN dbTable]]
    /\ UNCHANGED <<media_store, nOps, mediaOp, returned, deleted, sharedMedia>>
    /\ UNCHANGED <<now, telemetryVars, gwVars, linkVars, agentVars>>

\* media.apply_update(&update) on the shared-types Media object; the clock
\* has advanced by d seconds since the last operation.
ApplyUpdate ==
    /\ nOps < MaxOps
    /\ nOps' = nOps + 1
    /\ \E update \in SharedPatches, d \in {0, 1} :
         /\ now' = now + d
         /\ sharedMedia' = apply_update(sharedMedia, update, now')
         /\ mediaOp' = [op |-> "apply", id |-> sharedMedia.id, patch |-> Some(update), status |-> 0, body |-> None]
    /\ UNCHANGED <<media_store, dbTable, returned, deleted, updates>>
    /\ UNCHANGED <<telemetryVars, gwVars, linkVars, agentVars>>

TickSteps == {1, TTL_SECS - 1}

Tick ==
    /\ nOps < MaxOps
    /\ \E d \in TickSteps : now' = now + d
    /\ nOps' = nOps + 1
    /\ UNCHANGED <<lastWriteAt, replaced, redis, db, redisStore, media_store, dbTable, nWrites, writeResp, nMedia, mediaResp, listPc, listKeys, listAcc, listFetched, listDirty, listScan, listFailed, listAfterWrite, listResp>>
    /\ UNCHANGED outsideCache

\* AppState at startup, with or without a database pool.
AppStateInit(dbOpt) ==
    /\ redis \in {"Some", "None"}
    /\ db = dbOpt
    /\ redisStore = <<>>
    /\ media_store = <<>>
    /\ dbTable = <<>>
    /\ now = 0
    /\ nOps = 0
    /\ nWrites = 0
    /\ writeResp = None
    /\ nMedia = 0
    /\ mediaResp = None
    /\ listPc = "idle"
    /\ listKeys = <<>>
    /\ listAcc = <<>>
    /\ listFetched = {}
    /\ listDirty = {}
    /\ listScan = [ok |-> FALSE, keys |-> {}]
    /\ listFailed = None
    /\ listAfterWrite = FALSE
    /\ replaced = FALSE
    /\ lastWriteAt = <<>>
    /\ listResp = None

CacheInit == AppStateInit("None")

\* No /v1/media request served yet; the shared-types Media object as
\* test_apply_update constructs it.
MediaInit ==
    /\ sharedMedia = Media_new(1, "test.jpg", "/uploads/test.jpg", "image/jpeg", 1024, 0)
    /\ mediaOp = [op |-> "none", id |-> 0, patch |-> None, status |-> 0, body |-> None]
    /\ returned = <<>>
    /\ deleted = {}
    /\ updates = [c \in Clients |-> [pc |-> "idle"]]

GatewayInit ==
    /\ gwPc = "poll"
    /\ inbox = <<>>
    /\ posts = <<>>
    /\ postOutcome = None
    /\ inFlight = {}
    /\ sleepFor = 0
    /\ nErrors = 0

\* The topic filters, as sequences of levels.
default_topics == <<<<"sensors", "#">>>>
OverlappingTopics == <<<<"sensors", "#">>, <<>>, <<"sensors", "+", "temperature">>>>
ManyTopics(n) == [i \in 1..n |-> <<"sensors", ToString(i), "#">>]
TopicConfigs == {default_topics, OverlappingTopics, ManyTopics(MaxFilters)}

LinkInit ==
    /\ mqtt_topics \in TopicConfigs
    /\ linkPc = "subscribe"
    /\ subIdx = 0
    /\ requests = <<>>
    /\ network = "none"
    /\ brokerSubs = {}
    /\ deliveries = <<>>
    /\ nPublished = 0
    /\ sinkWrites = <<>>
    /\ nLinkErrors = 0

\* The gateway under its default configuration, before it has run.
LinkIdle == LinkInit /\ mqtt_topics = default_topics

\* The Uuid::new_v4() of each sensor's construction.
TemperatureSensorId == "550e8400-e29b-41d4-a716-446655440001"
HumiditySensorId == "550e8400-e29b-41d4-a716-446655440002"
MotionSensorId == "550e8400-e29b-41d4-a716-446655440003"

\* The edge agent after SensorController::new(), at its first timer.tick().
AgentInit ==
    /\ sensors = [temperature |-> [sensor_id |-> TemperatureSensorId, last_value |-> 2200],
                  humidity |-> [sensor_id |-> HumiditySensorId, last_value |-> 5500],
                  motion |-> [sensor_id |-> MotionSensorId]]
    /\ agentPc = "tick"
    /\ pending = <<>>
    /\ lastRead = <<>>
    /\ submitted = <<>>
    /\ agentRequests = <<>>
    /\ pumpPc = "poll"
    /\ nReads = 0

InitCache == CacheInit /\ GatewayInit /\ LinkIdle /\ AgentInit /\ MediaInit

NextCache == AddSensorData \/ CreateMedia \/ ListKeys \/ ListGet \/ ListReturn \/ Tick

InitMedia == InitCache /\ redis = "None"
NextMedia == CreateMedia \/ GetMedia \/ UpdateMedia \/ DeleteMedia \/ ApplyUpdate
SpecMedia == InitMedia /\ [][NextMedia]_vars

\* The media handlers with concurrent PUT requests, with and without a
\* database.
InitMediaDb ==
    /\ \E dbOpt \in {"Some", "None"} : AppStateInit(dbOpt)
    /\ redis = "None"
    /\ GatewayInit /\ LinkIdle /\ AgentInit /\ MediaInit
NextMediaDb == CreateMedia \/ DeleteMedia \/ UpdateBegin \/ UpdateWrite
SpecMediaDb == InitMediaDb /\ [][NextMediaDb]_vars

SpecCache == InitCache /\ [][NextCache]_vars

-----------------------------------------------------------------------------
(* shared-types: the wire forms of MqttMessage and SensorReading *)

\* The text of a UUID and the Uuid it parses to (Uuid's Display is the lower
\* case hyphenated form); any other text is no UUID.
UuidTexts ==
    [t \in {"550e8400-e29b-41d4-a716-446655440000", "550E8400-E29B-41D4-A716-446655440000",
             "550e8400-e29b-41d4-a716-446655440001", "550e8400-e29b-41d4-a716-446655440002",
             "550e8400-e29b-41d4-a716-446655440003"} |->
        IF t = "550E8400-E29B-41D4-A716-446655440000" THEN "550e8400-e29b-41d4-a716-446655440000" ELSE t]
ParseUuid(s) == IF s \in DOMAIN UuidTexts THEN [ok |-> TRUE, uuid |-> UuidTexts[s]] ELSE [ok |-> FALSE]

\* The text of an RFC 3339 timestamp is kept as its local time in seconds and
\* its offset designator; DateTime<Utc> is the instant in seconds.
OffsetSecs == [o \in {"Z", "+00:00", "+01:00"} |-> IF o = "+01:00" THEN TTL_SECS ELSE 0]
IsRfc3339(s) == DOMAIN s = {"local", "off"} /\ s.off \in DOMAIN OffsetSecs
ParseRfc3339(s) == IF IsRfc3339(s) THEN [ok |-> TRUE, utc |-> s.local - OffsetSecs[s.off]] ELSE [ok |-> FALSE]
\* DateTime<Utc>::to_rfc3339: the offset is written as +00:00.
to_rfc3339(utc) == [local |-> utc, off |-> "+00:00"]

\* serde_json::from_str::<MqttMessage>: message_type, payload, timestamp and
\* device_id are required; qos is a u8 and defaults to 0.
MqttMessageFromJson(j) ==
    IF /\ IsJObj(j)
       /\ HasMember(j, "message_type") /\ IsJStr(j[2]["message_type"])
       /\ HasMember(j, "payload")
       /\ HasMember(j, "timestamp") /\ IsJStr(j[2]["timestamp"]) /\ ParseRfc3339(j[2]["timestamp"][2]).ok
       /\ HasMember(j, "device_id") /\ IsJStr(j[2]["device_id"]) /\ ParseUuid(j[2]["device_id"][2]).ok
       /\ HasMember(j, "qos") => (IsJNum(j[2]["qos"]) /\ j[2]["qos"][2] \in 0..255)
    THEN [ok |-> TRUE,
          msg |-> [message_type |-> j[2]["message_type"][2],
                   payload |-> j[2]["payload"],
                   timestamp |-> ParseRfc3339(j[2]["timestamp"][2]).utc,
                   device_id |-> ParseUuid(j[2]["device_id"][2]).uuid,
                   qos |-> IF HasMember(j, "qos") THEN j[2]["qos"][2] ELSE 0]]
    ELSE [ok |-> FALSE]

\* serde_json::from_value::<SensorReading>: sensor_id, value, timestamp and
\* is_valid are required; metadata is an Option.
SensorReadingFromJson(j) ==
    IF /\ IsJObj(j)
       /\ HasMember(j, "sensor_id") /\ IsJStr(j[2]["sensor_id"]) /\ ParseUuid(j[2]["sensor_id"][2]).ok
       /\ HasMember(j, "value") /\ IsJStr(j[2]["value"])
       /\ HasMember(j, "timestamp") /\ IsJStr(j[2]["timestamp"]) /\ ParseRfc3339(j[2]["timestamp"][2]).ok
       /\ HasMember(j, "is_valid") /\ IsJBool(j[2]["is_valid"])
    THEN [ok |-> TRUE,
          reading |-> [sensor_id |-> ParseUuid(j[2]["sensor_id"][2]).uuid,
                       value |-> j[2]["value"][2],
                       timestamp |-> ParseRfc3339(j[2]["timestamp"][2]).utc,
                       is_valid |-> j[2]["is_valid"][2],
                       metadata |-> IF HasMember(j, "metadata") /\ j[2]["metadata"] # JNull
                                    THEN j[2]["metadata"] ELSE None]]
    ELSE [ok |-> FALSE]

-----------------------------------------------------------------------------
(* mqtt-gateway: handle_message *)

Digits == [c \in {"0", "1", "2", "3", "4", "5", "6", "7", "8", "9"} |->
             CASE c = "0" -> 0 [] c = "1" -> 1 [] c = "2" -> 2 [] c = "3" -> 3 [] c = "4" -> 4
               [] c = "5" -> 5 [] c = "6" -> 6 [] c = "7" -> 7 [] c = "8" -> 8 [] c = "9" -> 9]

\* The value of a run of decimal digits.
RECURSIVE DigitsValue(_)
DigitsValue(cs) == IF cs = <<>> THEN 0 ELSE 10 * DigitsValue(SubSeq(cs, 1, Len(cs) - 1)) + Digits[cs[Len(cs)]]

\* f64::INFINITY: above every finite value of the model.
INFINITY == 1000000000

\* str::parse::<f64> on a text of characters, in hundredths: "inf", or an
\* optional sign, digits with at most one point among them and at least one
\* digit (texts with an exponent, nan, a signed inf and more than two decimals
\* are not in the model).
ParseF64(cs) ==
    IF cs = <<"i", "n", "f">> THEN [ok |-> TRUE, value |-> INFINITY] ELSE
    LET signed == cs # <<>> /\ cs[1] \in {"+", "-"}
        body == IF signed THEN Tail(cs) ELSE cs
        points == {i \in DOMAIN body : body[i] = "."}
        p == IF points = {} THEN Len(body) + 1 ELSE CHOOSE i \in points : TRUE
        int == SubSeq(body, 1, p - 1)
        frac == SubSeq(body, p + 1, Len(body))
        wellFormed == /\ Cardinality(points) <= 1
                      /\ \A i \in DOMAIN body : body[i] = "." \/ body[i] \in DOMAIN Digits
                      /\ Len(int) + Len(frac) > 0
                      /\ Len(frac) <= 2
        magnitude == 100 * DigitsValue(int) + (IF Len(frac) = 1 THEN 10 * DigitsValue(frac) ELSE DigitsValue(frac))
    IN IF wellFormed
       THEN [ok |-> TRUE, value |-> IF signed /\ cs[1] = "-" THEN 0 - magnitude ELSE magnitude]
       ELSE [ok |-> FALSE]

\* A topic is the sequence of its levels, which '/' separates in the topic's
\* text: topic.split('/').last() is the last of them.
last_segment(topic) == topic[Len(topic)]

\* Mutant of handle_message: an Envelope whose payload is no SensorReading is
\* forwarded with the value 0.
handle_message_without_reading(topic, payload) ==
    IF ~payload.utf8 THEN [forward |-> FALSE]
    ELSE IF ~payload.json THEN [forward |-> FALSE]
    ELSE LET m == MqttMessageFromJson(payload.value) IN
         IF ~m.ok THEN [forward |-> FALSE]
         ELSE [forward |-> TRUE,
               record |-> [device_id |-> m.msg.device_id, sensor_type |-> last_segment(topic), value |-> 0,
                           unit |-> UnitFor(last_segment(topic)), timestamp |-> to_rfc3339(m.msg.timestamp),
                           metadata |-> None]]

\* Mutant of handle_message: a payload that is no MqttMessage is forwarded as a
\* record without value.
handle_message_forward_any(topic, payload) ==
    [forward |-> TRUE,
     record |-> [device_id |-> "", sensor_type |-> last_segment(topic), value |-> 0,
                 unit |-> UnitFor(last_segment(topic)), timestamp |-> to_rfc3339(0), metadata |-> None]]

\* Mutant of handle_message: the sensor type is the Envelope's message_type.
handle_message_kind_from_envelope(topic, payload) ==
    IF ~payload.utf8 THEN [forward |-> FALSE]
    ELSE IF ~payload.json THEN [forward |-> FALSE]
    ELSE LET m == MqttMessageFromJson(payload.value) IN
         IF ~m.ok THEN [forward |-> FALSE]
         ELSE LET r == SensorReadingFromJson(m.msg.payload) IN
              IF ~r.ok THEN [forward |-> FALSE]
              ELSE LET parsed == ParseF64(r.reading.value)
                   IN [forward |-> TRUE,
                       record |-> [device_id |-> m.msg.device_id,
                                   sensor_type |-> m.msg.message_type,
                                   value |-> IF parsed.ok THEN parsed.value ELSE 0,
                                   unit |-> UnitFor(m.msg.message_type),
                                   timestamp |-> to_rfc3339(r.reading.timestamp),
                                   metadata |-> r.reading.metadata]]

\* Mutant of handle_message: a Reading whose value is no number is dropped.
handle_message_drop_unparsed(topic, payload) ==
    IF ~payload.utf8 THEN [forward |-> FALSE]
    ELSE IF ~payload.json THEN [forward |-> FALSE]
    ELSE LET m == MqttMessageFromJson(payload.value) IN
         IF ~m.ok THEN [forward |-> FALSE]
         ELSE LET r == SensorReadingFromJson(m.msg.payload) IN
              IF ~r.ok THEN [forward |-> FALSE]
              ELSE LET sensor_type == last_segment(topic)
                       parsed == ParseF64(r.reading.value)
                   IN IF ~parsed.ok THEN [forward |-> FALSE]
                      ELSE [forward |-> TRUE,
                            record |-> [device_id |-> m.msg.device_id,
                                        sensor_type |-> sensor_type,
                                        value |-> parsed.value,
                                        unit |-> UnitFor(sensor_type),
                                        timestamp |-> to_rfc3339(r.reading.timestamp),
                                        metadata |-> r.reading.metadata]]

\* handle_message up to the POST: whether a record is forwarded, and the record.
handle_message(topic, payload) ==
    IF ~payload.utf8 THEN [forward |-> FALSE]
    ELSE IF ~payload.json THEN [forward |-> FALSE]
    ELSE LET m == MqttMessageFromJson(payload.value) IN
         IF ~m.ok THEN [forward |-> FALSE]
         ELSE LET r == SensorReadingFromJson(m.msg.payload) IN
              IF ~r.ok THEN [forward |-> FALSE]
              ELSE LET sensor_type == last_segment(topic)
                       parsed == ParseF64(r.reading.value)
                   IN [forward |-> TRUE,
                       record |-> [device_id |-> m.msg.device_id,
                                   sensor_type |-> sensor_type,
                                   value |-> IF parsed.ok THEN parsed.value ELSE 0,
                                   unit |-> UnitFor(sensor_type),
                                   timestamp |-> to_rfc3339(r.reading.timestamp),
                                   metadata |-> r.reading.metadata]]

\* The gateway's SensorData as the JSON body of the POST: a value that is not
\* finite is written as null, metadata is left out when it is None.
GatewaySensorDataToJson(data) ==
    LET value == IF data.value = INFINITY THEN JNull ELSE JNum(data.value) IN
    IF data.metadata = None
    THEN JObj([device_id |-> JStr(data.device_id), sensor_type |-> JStr(data.sensor_type), value |-> value,
               unit |-> JStr(data.unit), timestamp |-> JStr(data.timestamp)])
    ELSE JObj([device_id |-> JStr(data.device_id), sensor_type |-> JStr(data.sensor_type), value |-> value,
               unit |-> JStr(data.unit), timestamp |-> JStr(data.timestamp), metadata |-> data.metadata])

\* Error::status_code
status_code(kind) ==
    CASE kind \in {"MediaNotFound", "SensorNotFound"} -> 404
      [] kind \in {"InvalidUuid", "InvalidParameter"} -> 400
      [] kind = "Unauthorized" -> 401
      [] kind = "Forbidden" -> 403
      [] kind \in {"Database", "MqttError"} -> 503
      [] kind \in {"SerializationError", "InternalError"} -> 500

\* MqttMessage::new
MqttMessage_new(message_type, payload, device_id, t) ==
    [message_type |-> message_type, payload |-> payload, timestamp |-> t, device_id |-> device_id, qos |-> 1]

\* MqttMessage::with_qos
with_qos(self, qos) == [self EXCEPT !.qos = IF qos < 2 THEN qos ELSE 2]

\* Mutant of after_post: a POST that did not succeed is issued again.
after_post_retry(outcome, log) ==
    IF outcome = "success" THEN [pc |-> "poll", posts |-> log]
    ELSE [pc |-> "post", posts |-> Append(log, log[Len(log)])]

\* The match on the POST's result: every arm only logs, and handle_message
\* returns to the loop.
after_post(outcome, log) == [pc |-> "poll", posts |-> log]

\* Mutant of send_await: the POST is spawned and the loop polls on.
send_spawned(forward) == "poll"

\* .send().await inside handle_message: the loop is held until the POST ends.
send_await(forward) == IF forward THEN "post" ELSE "poll"

RETRY_DELAY_SECS == 5

\* Mutant of retry_delay: the delay grows with the errors in a row.
retry_delay_backoff(consecutive) == RETRY_DELAY_SECS * consecutive

\* The delay slept after a connection error.
retry_delay(consecutive) == RETRY_DELAY_SECS

\* The publishes the broker delivers in the model.
DeviceUuid == "550e8400-e29b-41d4-a716-446655440000"
SensorUuid == "550E8400-E29B-41D4-A716-446655440000"
ReadingJson(value) ==
    JObj([sensor_id |-> JStr(SensorUuid), value |-> JStr(value),
          timestamp |-> JStr([local |-> TTL_SECS, off |-> "Z"]), is_valid |-> JBool(TRUE)])
EnvelopeJson(kind, device_id, payload) ==
    JObj([message_type |-> JStr(kind \o "_reading"), payload |-> payload,
          timestamp |-> JStr([local |-> TTL_SECS, off |-> "Z"]), device_id |-> JStr(device_id), qos |-> JNum(0)])
EnvelopeJsonQos(kind, device_id, payload, qos) ==
    JObj([message_type |-> JStr(kind \o "_reading"), payload |-> payload,
          timestamp |-> JStr([local |-> TTL_SECS, off |-> "Z"]), device_id |-> JStr(device_id), qos |-> JNum(qos)])
Text(j) == [utf8 |-> TRUE, json |-> TRUE, value |-> j]
ValueInf == <<"i", "n", "f">>
Value2410 == <<"2", "4", ".", "1", "0">>
ValueAbc == <<"a", "b", "c">>
ForeignJson == JObj([temperature |-> JNum(2350)])
Edge01Envelopes == {Text(EnvelopeJson("temperature", DeviceUuid, ReadingJson(Value2410))), Text(EnvelopeJson("temperature", "edge-01", ReadingJson(Value2410)))}
Payloads ==
    {[utf8 |-> FALSE], [utf8 |-> TRUE, json |-> FALSE], Text(ForeignJson),
     Text(EnvelopeJson("temperature", DeviceUuid, ForeignJson)),
     Text(EnvelopeJson("temperature", DeviceUuid, ReadingJson(ValueAbc))),
     Text(EnvelopeJson("temperature", DeviceUuid, ReadingJson(ValueInf))),
     Text(EnvelopeJsonQos("temperature", DeviceUuid, ReadingJson(Value2410), 7))} \cup Edge01Envelopes
Topics == {<<"sensors", "edge-01", "temperature">>, <<"sensors", "edge-01", "pressure">>}
Publishes == {[topic |-> t, payload |-> p] : t \in Topics, p \in Payloads}

-----------------------------------------------------------------------------
(* mqtt-gateway: the receive loop *)

\* eventloop.poll() returns an incoming Publish: handle_message runs up to its POST.
PollPublish ==
    /\ gwPc = "poll"
    /\ Len(inbox) < MaxMsgs
    /\ \E pub \in Publishes :
         LET h == handle_message(pub.topic, pub.payload) IN
         /\ inbox' = Append(inbox, pub)
         /\ posts' = IF h.forward THEN Append(posts, [msg |-> Len(inbox) + 1, record |-> h.record]) ELSE posts
         /\ inFlight' = IF h.forward THEN inFlight \cup {Len(posts) + 1} ELSE inFlight
         /\ gwPc' = send_await(h.forward)
    /\ nErrors' = 0
    /\ UNCHANGED <<postOutcome, sleepFor>>
    /\ UNCHANGED outsideGateway

\* The POST ends: a success status, an error status, or a transport error.
PostDone ==
    /\ gwPc = "post"
    /\ postOutcome # Some("no_answer")
    /\ \E outcome \in {"success", "error_status", "transport_error"} :
         /\ postOutcome' = Some(outcome)
         /\ gwPc' = after_post(outcome, posts).pc
         /\ posts' = after_post(outcome, posts).posts
         /\ \E k \in inFlight :
              inFlight' = (inFlight \ {k}) \cup ((Len(posts) + 1)..Len(after_post(outcome, posts).posts))
    /\ UNCHANGED <<inbox, sleepFor, nErrors>>
    /\ UNCHANGED outsideGateway

\* eventloop.poll() returns Err: the loop sleeps.
PollError ==
    /\ gwPc = "poll"
    /\ nErrors < MaxErrors
    /\ nErrors' = nErrors + 1
    /\ sleepFor' = retry_delay(nErrors + 1)
    /\ gwPc' = "sleep"
    /\ UNCHANGED <<inbox, posts, postOutcome, inFlight>>
    /\ UNCHANGED outsideGateway

\* The sleep of 5 seconds is over: the loop polls again.
Wake ==
    /\ gwPc = "sleep"
    /\ gwPc' = "poll"
    /\ UNCHANGED <<inbox, posts, postOutcome, inFlight, sleepFor, nErrors>>
    /\ UNCHANGED outsideGateway

InitGateway == CacheInit /\ GatewayInit /\ LinkIdle /\ AgentInit /\ MediaInit

NextGateway == PollPublish \/ PostDone \/ PollError \/ Wake

SpecGateway == InitGateway /\ [][NextGateway]_vars

\* The runtime resumes a task whose sleep is over.
SpecGatewayLive == SpecGateway /\ WF_vars(Wake)

-----------------------------------------------------------------------------
(* mqtt-gateway: the receive loop and a sink that may stay silent *)

\* The sink accepts the request of the POST in flight and never answers it:
\* HttpClient::new() sets no timeout, so .send().await stays pending.
SinkNeverAnswers ==
    /\ gwPc = "post"
    /\ postOutcome # Some("no_answer")
    /\ postOutcome' = Some("no_answer")
    /\ UNCHANGED <<gwPc, inbox, posts, inFlight, sleepFor, nErrors>>
    /\ UNCHANGED outsideGateway

NextSink == NextGateway \/ SinkNeverAnswers

\* The runtime resumes a task whose sleep is over, and one whose POST has got
\* its answer or its transport error.
SpecSink == InitGateway /\ [][NextSink]_vars /\ WF_vars(Wake) /\ WF_vars(PostDone)

-----------------------------------------------------------------------------
(* mqtt-gateway: handle_message over every kind of topic *)

\* Topics of the three kinds the edge agent publishes, of a kind it does not,
\* and a topic whose text ends in '/': its last level is empty.
KindTopics ==
    {<<"sensors", "edge-01", "temperature">>, <<"sensors", "edge-01", "humidity">>,
     <<"sensors", "edge-01", "motion">>, <<"sensors", "edge-01", "pressure">>,
     <<"sensors", "edge-01", "">>}

\* Envelopes of two message types and Readings of two values, and a payload
\* that is no Envelope.
KindPayloads ==
    {Text(EnvelopeJson("temperature", DeviceUuid, ReadingJson(Value2410))),
     Text(EnvelopeJson("humidity", DeviceUuid, ReadingJson(Value2410))),
     Text(EnvelopeJson("temperature", DeviceUuid, ReadingJson(ValueAbc))),
     Text(ForeignJson)}

KindPublishes == {[topic |-> t, payload |-> p] : t \in KindTopics, p \in KindPayloads}

\* eventloop.poll() returns an incoming Publish on any of these topics:
\* handle_message runs up to its POST.
PollPublishKind ==
    /\ gwPc = "poll"
    /\ Len(inbox) < MaxHandled
    /\ \E pub \in KindPublishes :
         LET h == handle_message(pub.topic, pub.payload) IN
         /\ inbox' = Append(inbox, pub)
         /\ posts' = IF h.forward THEN Append(posts, [msg |-> Len(inbox) + 1, record |-> h.record]) ELSE posts
         /\ inFlight' = IF h.forward THEN inFlight \cup {Len(posts) + 1} ELSE inFlight
         /\ gwPc' = send_await(h.forward)
    /\ nErrors' = 0
    /\ UNCHANGED <<postOutcome, sleepFor>>
    /\ UNCHANGED outsideGateway

NextHandle == PollPublishKind \/ PostDone

SpecHandle == InitGateway /\ [][NextHandle]_vars

-----------------------------------------------------------------------------
(* mqtt-gateway: startup, the connection and the broker *)

REQUEST_CAP == 10

\* Config::parse_topics: the non-empty items, in order.
parse_topics(items) == SelectSeq(items, LAMBDA item : item # <<>>)

\* Whether a topic filter matches a topic name: + matches one level, a trailing
\* # matches the levels left, none included.
RECURSIVE Matches(_, _)
Matches(filter, topic) ==
    IF filter = <<>> THEN topic = <<>>
    ELSE IF Head(filter) = "#" THEN Len(filter) = 1
    ELSE IF topic = <<>> THEN FALSE
    ELSE (Head(filter) = "+" \/ Head(filter) = Head(topic)) /\ Matches(Tail(filter), Tail(topic))

\* The copies of a publish the broker may route to a session: none when no
\* filter matches, else one, or one for each matching filter.
Copies(subs, topic) ==
    LET matching == {f \in subs : Matches(f, topic)} IN
    IF matching = {} THEN {0} ELSE {1, Cardinality(matching)}

Repeat(x, n) == [i \in 1..n |-> x]

\* client.subscribe(..).await: the request enters the bounded channel, and the
\* call returns, only while the channel has room.
LinkSubscribe ==
    /\ linkPc = "subscribe"
    /\ subIdx < Len(parse_topics(mqtt_topics))
    /\ Len(requests) < REQUEST_CAP
    /\ requests' = Append(requests, parse_topics(mqtt_topics)[subIdx + 1])
    /\ subIdx' = subIdx + 1
    /\ UNCHANGED <<mqtt_topics, linkPc, network, brokerSubs, deliveries, nPublished, sinkWrites, nLinkErrors>>
    /\ UNCHANGED outsideLink

\* Every subscribe call has returned: main enters the receive loop.
LinkEnterLoop ==
    /\ linkPc = "subscribe"
    /\ subIdx = Len(parse_topics(mqtt_topics))
    /\ linkPc' = "loop"
    /\ UNCHANGED <<mqtt_topics, subIdx, requests, network, brokerSubs, deliveries, nPublished, sinkWrites, nLinkErrors>>
    /\ UNCHANGED outsideLink

\* eventloop.poll() without a connection: it connects, with a clean session.
LinkPollConnect ==
    /\ linkPc = "loop"
    /\ network = "none"
    /\ network' = "up"
    /\ UNCHANGED <<mqtt_topics, linkPc, subIdx, requests, brokerSubs, deliveries, nPublished, sinkWrites, nLinkErrors>>
    /\ UNCHANGED outsideLink

\* eventloop.poll() on a connection takes the next request of the channel and
\* sends it: the broker holds the filter from then on.
LinkPollRequest ==
    /\ linkPc = "loop"
    /\ network = "up"
    /\ requests # <<>>
    /\ brokerSubs' = brokerSubs \cup {Head(requests)}
    /\ requests' = Tail(requests)
    /\ UNCHANGED <<mqtt_topics, linkPc, subIdx, network, deliveries, nPublished, sinkWrites, nLinkErrors>>
    /\ UNCHANGED outsideLink

\* eventloop.poll() returns an incoming Publish: handle_message POSTs its
\* record once, and the sink writes it or fails.
LinkPollPublish ==
    /\ linkPc = "loop"
    /\ network = "up"
    /\ deliveries # <<>>
    /\ deliveries' = Tail(deliveries)
    /\ \E written \in BOOLEAN :
         sinkWrites' = IF written THEN Append(sinkWrites, Head(deliveries).reading) ELSE sinkWrites
    /\ UNCHANGED <<mqtt_topics, linkPc, subIdx, requests, network, brokerSubs, nPublished, nLinkErrors>>
    /\ UNCHANGED outsideLink

\* eventloop.poll() returns Err: the connection is gone, and with it the clean
\* session's filters and undelivered publishes; the loop sleeps and goes on.
LinkPollError ==
    /\ linkPc = "loop"
    /\ nLinkErrors < MaxErrors
    /\ nLinkErrors' = nLinkErrors + 1
    /\ network' = "none"
    /\ brokerSubs' = {}
    /\ deliveries' = <<>>
    /\ UNCHANGED <<mqtt_topics, linkPc, subIdx, requests, nPublished, sinkWrites>>
    /\ UNCHANGED outsideLink

\* The topics the edge agent publishes on.
AgentTopics == {<<"sensors", "edge-agent", "temperature">>, <<"sensors", "edge-agent", "humidity">>}

\* The edge agent's publish of one reading reaches the broker, which routes it
\* to the gateway's session.
BrokerRoute ==
    /\ nPublished < MaxReadings
    /\ nPublished' = nPublished + 1
    /\ \E topic \in AgentTopics : \E n \in Copies(brokerSubs, topic) :
         deliveries' = deliveries \o Repeat([reading |-> nPublished + 1, topic |-> topic], n)
    /\ UNCHANGED <<mqtt_topics, linkPc, subIdx, requests, network, brokerSubs, sinkWrites, nLinkErrors>>
    /\ UNCHANGED outsideLink

InitLink == CacheInit /\ redis = "Some" /\ GatewayInit /\ LinkInit /\ AgentInit /\ MediaInit

NextLink == LinkSubscribe \/ LinkEnterLoop \/ LinkPollConnect \/ LinkPollRequest \/ LinkPollPublish \/ LinkPollError \/ BrokerRoute

SpecLink == InitLink /\ [][NextLink]_vars

-----------------------------------------------------------------------------
(* edge-agent: the mock sensors *)

\* The random changes drawn in the model, in hundredths: gen_range(-2.0..2.0)
\* and gen_range(-5.0..5.0).
TemperatureChanges == {-199, 0, 199}
HumidityChanges == {-498, 0, 498}

DigitChar(d) == CHOOSE c \in DOMAIN Digits : Digits[c] = d
RECURSIVE DigitChars(_)
DigitChars(n) == IF n < 10 THEN <<DigitChar(n)>> ELSE DigitChars(n \div 10) \o <<DigitChar(n % 10)>>

\* format!("{:.2}", v) and format!("{:.1}", v) of a value that is not negative,
\* kept in hundredths; with one decimal the value is rounded to the nearest
\* tenth (no value of the model lies halfway).
FormatFixed(v, decimals) ==
    IF decimals = 2
    THEN DigitChars(v \div 100) \o <<".", DigitChar((v % 100) \div 10), DigitChar(v % 10)>>
    ELSE LET tenths == (v + 5) \div 10 IN DigitChars(tenths \div 10) \o <<".", DigitChar(tenths % 10)>>

\* Mutant of clamp: the value is left as it is.
clamp_none(x, lo, hi) == x

\* f64::clamp
clamp(x, lo, hi) == IF x < lo THEN lo ELSE IF x > hi THEN hi ELSE x

\* Mutant of temperature_read: every read draws a new sensor_id.
temperature_read_new_id(self, change, t) ==
    LET last_value == clamp(self.last_value + change, 1800, 3000) IN
    [self |-> [sensor_id |-> "550e8400-e29b-41d4-a716-446655440000", last_value |-> last_value],
     data |-> [reading |-> [sensor_id |-> "550e8400-e29b-41d4-a716-446655440000", value |-> FormatFixed(last_value, 2),
                            timestamp |-> t, is_valid |-> TRUE, metadata |-> None],
               sensor_type |-> "temperature", unit |-> "celsius"]]

\* TemperatureSensor::read: the sensor afterwards and the SensorData returned.
temperature_read(self, change, t) ==
    LET last_value == clamp(self.last_value + change, 1800, 3000) IN
    [self |-> [sensor_id |-> self.sensor_id, last_value |-> last_value],
     data |-> [reading |-> [sensor_id |-> self.sensor_id, value |-> FormatFixed(last_value, 2),
                            timestamp |-> t, is_valid |-> TRUE, metadata |-> None],
               sensor_type |-> "temperature", unit |-> "celsius"]]

\* Mutant of humidity_read: the change is added twice.
humidity_read_double_step(self, change, t) ==
    LET last_value == clamp(self.last_value + change + change, 3000, 8000) IN
    [self |-> [sensor_id |-> self.sensor_id, last_value |-> last_value],
     data |-> [reading |-> [sensor_id |-> self.sensor_id, value |-> FormatFixed(last_value, 1),
                            timestamp |-> t, is_valid |-> TRUE, metadata |-> None],
               sensor_type |-> "humidity", unit |-> "percent"]]

\* HumiditySensor::read
humidity_read(self, change, t) ==
    LET last_value == clamp(self.last_value + change, 3000, 8000) IN
    [self |-> [sensor_id |-> self.sensor_id, last_value |-> last_value],
     data |-> [reading |-> [sensor_id |-> self.sensor_id, value |-> FormatFixed(last_value, 1),
                            timestamp |-> t, is_valid |-> TRUE, metadata |-> None],
               sensor_type |-> "humidity", unit |-> "percent"]]

\* Mutant of motion_read: the metadata is attached to every reading.
motion_read_always_metadata(self, motion_detected, t) ==
    [reading |-> [sensor_id |-> self.sensor_id, value |-> IF motion_detected THEN <<"1">> ELSE <<"0">>,
                  timestamp |-> t, is_valid |-> TRUE,
                  metadata |-> JObj([event |-> JStr("motion_detected")])],
     sensor_type |-> "motion", unit |-> "boolean"]

\* MotionSensor::read
motion_read(self, motion_detected, t) ==
    [reading |-> [sensor_id |-> self.sensor_id, value |-> IF motion_detected THEN <<"1">> ELSE <<"0">>,
                  timestamp |-> t, is_valid |-> TRUE,
                  metadata |-> IF motion_detected THEN JObj([event |-> JStr("motion_detected")]) ELSE None],
     sensor_type |-> "motion", unit |-> "boolean"]

\* Mutant of read_all: the motion sensor is read twice, the humidity sensor not.
read_all_motion_twice(self, tchange, hchange, motion_detected, t) ==
    [self |-> [temperature |-> temperature_read(self.temperature, tchange, t).self, humidity |-> self.humidity,
               motion |-> self.motion],
     data |-> <<temperature_read(self.temperature, tchange, t).data, motion_read(self.motion, motion_detected, t),
                motion_read(self.motion, motion_detected, t)>>]

\* SensorController::read_all: the controller afterwards and the vector returned.
read_all(self, tchange, hchange, motion_detected, t) ==
    [self |-> [temperature |-> temperature_read(self.temperature, tchange, t).self,
               humidity |-> humidity_read(self.humidity, hchange, t).self,
               motion |-> self.motion],
     data |-> <<temperature_read(self.temperature, tchange, t).data,
                humidity_read(self.humidity, hchange, t).data,
                motion_read(self.motion, motion_detected, t)>>]

-----------------------------------------------------------------------------
(* edge-agent: the tick task and the pump task *)

device_name == "edge-agent"

\* SensorReading as JSON: metadata is left out when it is None.
SensorReadingToJson(r) ==
    IF r.metadata = None
    THEN JObj([sensor_id |-> JStr(r.sensor_id), value |-> JStr(r.value),
               timestamp |-> JStr([local |-> r.timestamp, off |-> "Z"]), is_valid |-> JBool(r.is_valid)])
    ELSE JObj([sensor_id |-> JStr(r.sensor_id), value |-> JStr(r.value),
               timestamp |-> JStr([local |-> r.timestamp, off |-> "Z"]), is_valid |-> JBool(r.is_valid),
               metadata |-> r.metadata])

\* MqttMessage as JSON.
MqttMessageToJson(m) ==
    JObj([message_type |-> JStr(m.message_type), payload |-> m.payload,
          timestamp |-> JStr([local |-> m.timestamp, off |-> "Z"]), device_id |-> JStr(m.device_id),
          qos |-> JNum(m.qos)])

\* Mutant of publish_message: the envelope is built as MqttMessage::new builds
\* it, with qos 1.
publish_message_new(data, device_id, t) ==
    [message_type |-> data.sensor_type \o "_reading", payload |-> SensorReadingToJson(data.reading),
     timestamp |-> t, device_id |-> device_id, qos |-> 1]

\* The MqttMessage the tick loop builds for one SensorData.
publish_message(data, device_id, t) ==
    [message_type |-> data.sensor_type \o "_reading", payload |-> SensorReadingToJson(data.reading),
     timestamp |-> t, device_id |-> device_id, qos |-> 0]

\* The topic the tick loop publishes one SensorData on.
publish_topic(name, data) == <<"sensors", name, data.sensor_type>>

\* sensors.read_all(), called on its own.
ReadAll ==
    /\ agentPc = "tick"
    /\ nReads < MaxReads
    /\ \E tchange \in TemperatureChanges, hchange \in HumidityChanges, motion_detected \in BOOLEAN :
         LET r == read_all(sensors, tchange, hchange, motion_detected, nReads + 1) IN
         /\ sensors' = r.self
         /\ lastRead' = r.data
    /\ nReads' = nReads + 1
    /\ UNCHANGED <<agentPc, pending, submitted, agentRequests, pumpPc>>
    /\ UNCHANGED outsideAgent

\* timer.tick() returns: the tick loop reads all sensors and enters its for loop.
AgentTick ==
    /\ agentPc = "tick"
    /\ nReads < MaxTicks
    /\ \E tchange \in TemperatureChanges, hchange \in HumidityChanges, motion_detected \in BOOLEAN :
         LET r == read_all(sensors, tchange, hchange, motion_detected, nReads + 1) IN
         /\ sensors' = r.self
         /\ lastRead' = r.data
         /\ pending' = r.data
    /\ submitted' = <<>>
    /\ agentPc' = "publish"
    /\ nReads' = nReads + 1
    /\ UNCHANGED <<agentRequests, pumpPc>>
    /\ UNCHANGED outsideAgent

\* One turn of the for loop: the envelope is built and serialized, and
\* client.publish(..).await puts the request into the bounded channel, and
\* returns, only while the channel has room.
AgentPublish ==
    /\ agentPc = "publish"
    /\ Len(agentRequests) < REQUEST_CAP
    /\ LET data == Head(pending)
           topic == publish_topic(device_name, data)
           message == publish_message(data, DeviceUuid, nReads)
       IN /\ submitted' = Append(submitted, [topic |-> topic, qos |-> 0, payload |-> Text(MqttMessageToJson(message))])
          /\ agentRequests' = Append(agentRequests, topic)
    /\ pending' = Tail(pending)
    /\ agentPc' = IF Tail(pending) = <<>> THEN "tick" ELSE "publish"
    /\ UNCHANGED <<sensors, lastRead, pumpPc, nReads>>
    /\ UNCHANGED outsideAgent

\* The pump task's eventloop.poll() takes the next request of the channel and
\* sends it to the broker.
PumpPollRequest ==
    /\ pumpPc = "poll"
    /\ agentRequests # <<>>
    /\ agentRequests' = Tail(agentRequests)
    /\ UNCHANGED <<sensors, agentPc, pending, lastRead, submitted, pumpPc, nReads>>
    /\ UNCHANGED outsideAgent

\* The pump task's eventloop.poll() returns Err (the broker cannot be
\* reached): the task sleeps.
PumpPollError ==
    /\ pumpPc = "poll"
    /\ pumpPc' = "sleep"
    /\ UNCHANGED <<sensors, agentPc, pending, lastRead, submitted, agentRequests, nReads>>
    /\ UNCHANGED outsideAgent

\* The pump task's sleep of 5 seconds is over.
PumpWake ==
    /\ pumpPc = "sleep"
    /\ pumpPc' = "poll"
    /\ UNCHANGED <<sensors, agentPc, pending, lastRead, submitted, agentRequests, nReads>>
    /\ UNCHANGED outsideAgent

InitAgent == CacheInit /\ redis = "Some" /\ GatewayInit /\ LinkIdle /\ AgentInit /\ MediaInit

NextSensors == ReadAll

SpecSensors == InitAgent /\ [][NextSensors]_vars

NextAgent == AgentTick \/ AgentPublish \/ PumpPollRequest \/ PumpPollError \/ PumpWake

SpecAgent == InitAgent /\ [][NextAgent]_vars

-----------------------------------------------------------------------------
(* Claims about the telemetry cache (SpecCache) *)

\* The record the store holds at a key.
Stored(k) == SensorDataFromJson(redisStore[k].json).data
PairOf(data) == <<data.device_id, data.sensor_type>>
ListDone == listPc = "done"

\* C1 (as stated): on the remote backend, a list() whose key scan succeeded
\* contains the record last written at every key K that was written before the
\* list began, is still within its TTL and was not written again, whatever
\* happened to the other keys (K's own fetch did not fail).
C1_ListContainsLiveRecord ==
    (ListDone /\ redis = "Some" /\ listScan.ok) =>
        \A k \in listScan.keys :
            (now < redisStore[k].expireAt /\ k \notin listDirty /\ listFailed # Some(k))
                => Stored(k) \in Range(listResp.body)

\* C2: the store holds one entry per (device_id, sensor_type), a list() never
\* returns two entries of the same pair, and an entry it returns for a key that
\* was not written since the list began is the latest record written there.
C2_OneEntryPerKey ==
    /\ \A k \in DOMAIN redisStore : redis_key(Stored(k)) = k
    /\ \A k1, k2 \in DOMAIN redisStore : PairOf(Stored(k1)) = PairOf(Stored(k2)) => k1 = k2
    /\ ListDone =>
          /\ \A i, j \in DOMAIN listResp.body :
                PairOf(listResp.body[i]) = PairOf(listResp.body[j]) => i = j
          /\ \A i \in DOMAIN listResp.body :
                redis_key(listResp.body[i]) \notin listDirty
                    => listResp.body[i] = Stored(redis_key(listResp.body[i]))

\* C2 witness: a list returned the newer of two records written at one pair.
C2_Witness ==
    /\ ListDone /\ listDirty = {} /\ Len(listResp.body) = 1
    /\ replaced
    /\ \E k \in DOMAIN redisStore : DOMAIN redisStore = {k} /\ listResp.body[1] = Stored(k)

\* C3 (as stated): with no remote store selected at startup, every write is
\* answered as stored and a list() that follows a write is not empty.
C3_InMemoryBackendServes ==
    redis = "None" =>
        /\ writeResp # None => writeResp[1].status = OK
        /\ (ListDone /\ listAfterWrite) => Len(listResp.body) > 0

\* C4 (as stated): the write handler answers 200, 503 or 500 and nothing else.
C4_WriteStatuses ==
    writeResp # None => writeResp[1].status \in {OK, SERVICE_UNAVAILABLE, INTERNAL_SERVER_ERROR}

C6_FetchFailureSkipped ==
    (ListDone /\ listScan.ok) => listFetched \subseteq Range(listResp.body)

\* C7: GET /api/sensors always answers 200 with an array, which is empty when
\* there is no remote store, when the scan failed and when it found no key.
C7_ListAlwaysOk ==
    ListDone =>
        /\ listResp.status = OK
        /\ (redis = "None" \/ ~listScan.ok \/ listScan.keys = {}) => listResp.body = <<>>
        /\ Range(listResp.body) \subseteq CacheRecords

\* C7 witness: the read of the remote store failed at a key and the request was
\* answered all the same.
C7_Witness ==
    ListDone /\ redis = "Some" /\ listFailed # None /\ listResp.status = OK

-----------------------------------------------------------------------------
(* Claims about the gateway (SpecGateway) *)

\* The payload is valid UTF-8 that parses as an MqttMessage.
IsEnvelope(payload) == payload.utf8 /\ payload.json /\ MqttMessageFromJson(payload.value).ok
\* All three decode steps succeed.
Decodes(payload) == IsEnvelope(payload) /\ SensorReadingFromJson(MqttMessageFromJson(payload.value).msg.payload).ok
PostsOf(i) == {k \in DOMAIN posts : posts[k].msg = i}

\* C8: a payload that is no Envelope causes no POST, and after it the loop is
\* polling again (or sleeping after a later connection error), never posting.
C8_MalformedNeverForwarded ==
    /\ \A i \in DOMAIN inbox : ~IsEnvelope(inbox[i].payload) => PostsOf(i) = {}
    /\ (inbox # <<>> /\ ~IsEnvelope(inbox[Len(inbox)].payload)) => gwPc \in {"poll", "sleep"}

\* C8 witness: a payload that is no Envelope was followed by a message that was
\* forwarded.
C8_Witness ==
    Len(inbox) = 2 /\ ~IsEnvelope(inbox[1].payload) /\ PostsOf(1) = {} /\ PostsOf(2) # {}

\* C9 (as stated): the Envelope of device edge-01 with a Reading of value
\* "24.10" on topic sensors/edge-01/temperature yields one POST of a record
\* with device_id "edge-01", sensor_type "temperature", value 24.10, unit "°C".
C9_Edge01Scenario ==
    \A i \in DOMAIN inbox :
        (inbox[i].topic = <<"sensors", "edge-01", "temperature">> /\ inbox[i].payload \in Edge01Envelopes) =>
            /\ Cardinality(PostsOf(i)) = 1
            /\ \A k \in PostsOf(i) :
                  /\ posts[k].record.device_id = "edge-01"
                  /\ posts[k].record.sensor_type = "temperature"
                  /\ posts[k].record.value = 2410
                  /\ posts[k].record.unit = "°C"

\* C10: a message whose three decode steps succeed has exactly one POST, no
\* message ever has more than one, whatever the POST's outcome and whatever
\* happens later; the POST in flight is that of the message polled last.
C10_ExactlyOnePost ==
    /\ \A i \in DOMAIN inbox :
          /\ Cardinality(PostsOf(i)) <= 1
          /\ Decodes(inbox[i].payload) => Cardinality(PostsOf(i)) = 1
    /\ \A k \in DOMAIN posts : posts[k].msg \in DOMAIN inbox
    /\ gwPc = "post" => (posts # <<>> /\ posts[Len(posts)].msg = Len(inbox))

\* C10 witness: the POST of the first message met a transport error, and a
\* second message has been polled since.
C10_Witness ==
    /\ Len(inbox) = 2 /\ gwPc = "poll" /\ postOutcome = Some("transport_error")
    /\ Decodes(inbox[1].payload) /\ ~Decodes(inbox[2].payload)
    /\ Cardinality(PostsOf(1)) = 1 /\ Len(posts) = 1

\* C11: at most one POST is in flight, the loop polls no further message while
\* one is, and the POSTs issued are those of inbound messages in inbound order,
\* each carrying the record handle_message builds from its message.
C11_OneAtATimeInOrder ==
    /\ Cardinality(inFlight) <= 1
    /\ inFlight # {} => (gwPc = "post" /\ inFlight = {Len(posts)})
    /\ \A k1, k2 \in DOMAIN posts : k1 < k2 => posts[k1].msg < posts[k2].msg
    /\ \A k \in DOMAIN posts :
          /\ posts[k].msg \in DOMAIN inbox
          /\ posts[k].record = handle_message(inbox[posts[k].msg].topic, inbox[posts[k].msg].payload).record

\* C11 witness: two inbound messages were forwarded, the second POST is in
\* flight after the first ended.
C11_Witness ==
    Len(inbox) = 2 /\ Len(posts) = 2 /\ inFlight = {2} /\ posts[1].msg = 1 /\ posts[2].msg = 2

\* C12: the loop is always polling, posting or sleeping; every sleep after a
\* connection error lasts the same 5 seconds however many errors came in a
\* row; a sleeping loop does nothing but poll again, and it does.
C12_FixedDelayRetry ==
    /\ [](gwPc \in {"poll", "post", "sleep"})
    /\ [](gwPc = "sleep" => sleepFor = RETRY_DELAY_SECS)
    /\ [][gwPc = "sleep" => gwPc' = "poll"]_vars
    /\ [][(gwPc = "poll" /\ gwPc' = "sleep") => nErrors' = nErrors + 1]_vars
    /\ ((gwPc = "sleep") ~> (gwPc = "poll"))

\* C12 witness: the loop sleeps after the second connection error in a row.
C12_Witness ==
    gwPc = "sleep" /\ nErrors = 2 /\ sleepFor = RETRY_DELAY_SECS

-----------------------------------------------------------------------------
(* Claims about the gateway's connection (SpecLink) *)

\* The gateway polls a live connection with no subscribe request left to send.
Receiving == linkPc = "loop" /\ network = "up" /\ requests = <<>>

\* C13 (as stated): the gateway is in Receiving only on a connection on which
\* its filters were subscribed, after a reconnect too.
C13_ReceivingOnlyWhenSubscribed ==
    Receiving => brokerSubs = Range(parse_topics(mqtt_topics))

\* C14 (as stated): during startup the pending subscribe call can always
\* return, however many filters are configured.
C14_StartupCompletes ==
    (linkPc = "subscribe" /\ subIdx < Len(parse_topics(mqtt_topics))) => Len(requests) < REQUEST_CAP

\* C17 (as stated): each reading published leads to at most one write into the
\* cache.
C17_AtMostOneWrite ==
    \A r \in 1..nPublished : Cardinality({k \in DOMAIN sinkWrites : sinkWrites[k] = r}) <= 1

-----------------------------------------------------------------------------
(* Claims about the edge agent (SpecAgent, SpecSensors) *)

\* C15 (as stated): a publish attempt of the tick task can always complete:
\* whenever the task is in its for loop, the request channel has room.
C15_PublishNeverBlocks ==
    agentPc = "publish" => Len(agentRequests) < REQUEST_CAP

\* The MqttMessage and the SensorReading the gateway's decoders read from a
\* submitted publish.
SubmittedMessage(i) == MqttMessageFromJson(submitted[i].payload.value)
SubmittedReading(i) == SensorReadingFromJson(SubmittedMessage(i).msg.payload)

\* C16: in every tick the publishes submitted so far are, in order, one for
\* each Reading of read_all() already handled: an Envelope of message_type
\* "<kind>_reading" and qos 0 whose payload decodes to that Reading, on topic
\* sensors/<device_name>/<kind>; when the tick is over there are three.
C16_OneEnvelopePerReading ==
    /\ Len(submitted) + Len(pending) = Len(lastRead)
    /\ (agentPc = "tick") = (pending = <<>>)
    /\ \A i \in DOMAIN submitted :
          /\ submitted[i].topic = <<"sensors", device_name, lastRead[i].sensor_type>>
          /\ submitted[i].qos = 0
          /\ submitted[i].payload.utf8 /\ submitted[i].payload.json
          /\ SubmittedMessage(i).ok
          /\ SubmittedMessage(i).msg.message_type = lastRead[i].sensor_type \o "_reading"
          /\ SubmittedMessage(i).msg.qos = 0
          /\ SubmittedMessage(i).msg.device_id = DeviceUuid
          /\ SubmittedReading(i).ok
          /\ SubmittedReading(i).reading = lastRead[i].reading

\* C16 witness: a tick is over with three publishes submitted, the motion
\* reading's metadata among them.
C16_Witness ==
    /\ agentPc = "tick" /\ Len(submitted) = 3 /\ nReads = 2
    /\ lastRead[3].reading.metadata # None
    /\ submitted[3].topic = <<"sensors", "edge-agent", "motion">>

\* C18 (as stated): the status a write was answered with is one the handler
\* answers on the other backend too.
C18_BackendsAgree ==
    writeResp # None =>
        \E other \in {"Some", "None"} \ {redis} : \E data \in CacheRecords, serOk \in BOOLEAN, setOk \in BOOLEAN :
            add_sensor_data(other, redisStore, media_store, now, data, serOk, setOk).status = writeResp[1].status

\* C19: every read_all() returns exactly three readings, one of each of
\* temperature, humidity and motion.
C19_ReadAllThreeKinds ==
    nReads > 0 =>
        /\ Len(lastRead) = 3
        /\ \A kind \in {"temperature", "humidity", "motion"} :
              Cardinality({i \in DOMAIN lastRead : lastRead[i].sensor_type = kind}) = 1

\* C19 witness: a later call of read_all() has returned, motion detected.
C19_Witness ==
    nReads = 3 /\ Len(lastRead) = 3 /\ lastRead[3].reading.value = <<"1">>

\* The value a reading's text stands for, in hundredths.
PublishedValue(data) == ParseF64(data.reading.value).value

\* C20: the running values start at 22 and 55; after any number of reads the
\* temperature's running value and published value lie in [18,30] and the
\* humidity's in [30,80].
C20_ValuesWithinBounds ==
    /\ nReads = 0 => (sensors.temperature.last_value = 2200 /\ sensors.humidity.last_value = 5500)
    /\ sensors.temperature.last_value \in 1800..3000
    /\ sensors.humidity.last_value \in 3000..8000
    /\ \A i \in DOMAIN lastRead :
          /\ ParseF64(lastRead[i].reading.value).ok
          /\ lastRead[i].sensor_type = "temperature" => PublishedValue(lastRead[i]) \in 1800..3000
          /\ lastRead[i].sensor_type = "humidity" => PublishedValue(lastRead[i]) \in 3000..8000

\* C20 witness: both running values were clamped to their lower bounds (no sum
\* of the model's changes reaches them exactly) and published as such.
C20_Witness ==
    /\ sensors.temperature.last_value = 1800 /\ sensors.humidity.last_value = 3000
    /\ lastRead[1].reading.value = <<"1", "8", ".", "0", "0">>
    /\ lastRead[2].reading.value = <<"3", "0", ".", "0">>

\* C21: every motion reading has value "0" or "1", and it carries metadata
\* exactly when its value is "1".
C21_MotionMetadataIffDetected ==
    \A i \in DOMAIN lastRead :
        lastRead[i].sensor_type = "motion" =>
            /\ lastRead[i].reading.value \in {<<"0">>, <<"1">>}
            /\ (lastRead[i].reading.metadata # None) = (lastRead[i].reading.value = <<"1">>)

\* C21 witness: a motion reading without metadata, of value "0".
C21_Witness ==
    nReads = 1 /\ lastRead[3].sensor_type = "motion" /\ lastRead[3].reading.metadata = None
    /\ lastRead[3].reading.value = <<"0">>

\* The sensor_id each sensor was constructed with.
ConstructionId == [temperature |-> TemperatureSensorId, humidity |-> HumiditySensorId, motion |-> MotionSensorId]

\* C22: after any number of reads every sensor still has the sensor_id of its
\* construction, and every reading carries the sensor_id of its sensor.
C22_SensorIdFixed ==
    /\ \A kind \in DOMAIN ConstructionId : sensors[kind].sensor_id = ConstructionId[kind]
    /\ \A i \in DOMAIN lastRead : lastRead[i].reading.sensor_id = ConstructionId[lastRead[i].sensor_type]

\* C22 witness: a fourth read_all() has returned readings of the three sensors.
C22_Witness ==
    nReads = 4 /\ {lastRead[i].reading.sensor_id : i \in DOMAIN lastRead} = {TemperatureSensorId, HumiditySensorId, MotionSensorId}

-----------------------------------------------------------------------------
(* Further claims about the gateway (SpecGateway) *)

\* C23 (as stated): every record the gateway forwards has a sensor_type among
\* temperature, humidity and motion.
C23_ForwardedKinds ==
    \A k \in DOMAIN posts : posts[k].record.sensor_type \in {"temperature", "humidity", "motion"}

\* C24 (as stated): the server's decoder reads from the gateway's encoding of
\* every forwarded record that same record.
C24_WireRoundTrip ==
    \A k \in DOMAIN posts :
        /\ SensorDataFromJson(GatewaySensorDataToJson(posts[k].record)).ok
        /\ SensorDataFromJson(GatewaySensorDataToJson(posts[k].record)).data = posts[k].record

\* C25 (as stated): MqttMessage::new sets qos 1, with_qos stores min(q, 2), the
\* edge agent's envelopes have qos 0, and no inbound Envelope of qos above 2 is
\* forwarded by the gateway.
C25_DeliveryClass ==
    /\ MqttMessage_new("sensor_data", ForeignJson, DeviceUuid, 0).qos = 1
    /\ \A q \in 0..255 : with_qos(MqttMessage_new("sensor_data", ForeignJson, DeviceUuid, 0), q).qos = (IF q < 2 THEN q ELSE 2)
    /\ \A i \in DOMAIN inbox :
          (IsEnvelope(inbox[i].payload) /\ PostsOf(i) # {}) => MqttMessageFromJson(inbox[i].payload.value).msg.qos \in {0, 1, 2}

\* C30: an inbound publish has a POST exactly when its payload is valid UTF-8,
\* parses as an MqttMessage and that message's payload parses as a
\* SensorReading; after a publish without POST the loop is not posting.
C30_PostIffDecoded ==
    /\ \A i \in DOMAIN inbox : (PostsOf(i) # {}) = Decodes(inbox[i].payload)
    /\ (inbox # <<>> /\ ~Decodes(inbox[Len(inbox)].payload)) => gwPc # "post"

\* C30 witness: an Envelope whose payload is no Reading and a payload that is
\* not UTF-8 were polled, neither was posted, and the loop polls on.
C30_Witness ==
    /\ Len(inbox) = 2 /\ posts = <<>> /\ gwPc = "poll"
    /\ IsEnvelope(inbox[1].payload) /\ ~Decodes(inbox[1].payload)
    /\ ~inbox[2].payload.utf8

-----------------------------------------------------------------------------
(* Further claims about the api-server (SpecCache) *)

\* The Error kind of each failure the write handler answers.
ErrorKindOf == [serialization |-> "SerializationError", backend |-> "InternalError", unavailable |-> "Database"]

\* C26 (as stated): status_code maps the kinds as listed, and a write that
\* failed is answered with the status_code of its failure's kind.
C26_StatusCodeMapping ==
    /\ \A kind \in {"MediaNotFound", "SensorNotFound"} : status_code(kind) = 404
    /\ \A kind \in {"InvalidUuid", "InvalidParameter"} : status_code(kind) = BAD_REQUEST
    /\ status_code("Unauthorized") = 401 /\ status_code("Forbidden") = 403
    /\ \A kind \in {"Database", "MqttError"} : status_code(kind) = SERVICE_UNAVAILABLE
    /\ \A kind \in {"SerializationError", "InternalError"} : status_code(kind) = INTERNAL_SERVER_ERROR
    /\ (writeResp # None /\ writeResp[1].failure # "none") =>
          writeResp[1].status = status_code(ErrorKindOf[writeResp[1].failure])

\* C29: on the remote backend a key is live exactly while fewer than 3600
\* seconds have passed since the last acknowledged write at it, and only
\* written keys are live.
C29_TtlFromLastWrite ==
    /\ keys(redisStore, now) \subseteq DOMAIN lastWriteAt
    /\ \A k \in DOMAIN lastWriteAt : IsLive(redisStore, k, now) = (now - lastWriteAt[k] < TTL_SECS)

\* C29 witness: 3600 seconds after time 0 the one key is live, because it was
\* written again one second before.
C29_Witness ==
    /\ now = TTL_SECS /\ replaced
    /\ \E k \in DOMAIN redisStore :
          DOMAIN redisStore = {k} /\ IsLive(redisStore, k, now) /\ lastWriteAt[k] = TTL_SECS - 1


-----------------------------------------------------------------------------
(* Claims about the media resource, checked under SpecMedia *)

\* The fields of a shared-types Media and of the api-server's Media.
SharedFields == {"id", "name", "path", "mime_type", "size_bytes", "created_at", "updated_at"}
ItemFields == {"id", "name", "path"}

\* The patch gives field f a value.
Provides(patch, f) == f \in DOMAIN patch /\ patch[f] # None

\* This step is a call of apply_update; this step is a PUT that found its item.
ApplyUpdateStep == nOps' # nOps /\ mediaOp'.op = "apply"
UpdateFoundStep == nOps' # nOps /\ mediaOp'.op = "update" /\ mediaOp'.status = OK

\* C27 as stated: a partial media update changes exactly the fields the patch
\* provides: a provided field takes the patch's value, every other field of
\* the object keeps its previous value and id never changes, in
\* Media::apply_update and in the in-memory update_media handler.
C27_OnlyProvidedFieldsChange ==
    [][/\ ApplyUpdateStep =>
            \A f \in SharedFields :
                sharedMedia'[f] = IF Provides(mediaOp'.patch[1], f)
                                  THEN mediaOp'.patch[1][f][1] ELSE sharedMedia[f]
       /\ UpdateFoundStep =>
            \A f \in ItemFields :
                media_store'[mediaOp'.id][f] = IF Provides(mediaOp'.patch[1], f)
                                               THEN mediaOp'.patch[1][f][1] ELSE media_store[mediaOp'.id][f]]_vars

\* C27 amended: a partial media update changes only the fields the patch
\* provides and, in Media::apply_update, updated_at, which every call sets to
\* the current time; a provided field takes the patch's value, every other
\* field keeps its previous value, id never changes, and the in-memory
\* update_media handler touches no other item of the map.
C27_ProvidedFieldsAndTimestamp ==
    [][/\ ApplyUpdateStep =>
            /\ \A f \in SharedFields \ {"updated_at"} :
                   sharedMedia'[f] = IF Provides(mediaOp'.patch[1], f)
                                     THEN mediaOp'.patch[1][f][1] ELSE sharedMedia[f]
            /\ sharedMedia'.updated_at = now'
       /\ UpdateFoundStep =>
            /\ \A f \in ItemFields :
                   media_store'[mediaOp'.id][f] = IF Provides(mediaOp'.patch[1], f)
                                                  THEN mediaOp'.patch[1][f][1] ELSE media_store[mediaOp'.id][f]
            /\ mediaOp'.body = Some(media_store'[mediaOp'.id])
            /\ DOMAIN media_store' = DOMAIN media_store
            /\ \A k \in DOMAIN media_store \ {mediaOp'.id} : media_store'[k] = media_store[k]]_vars

\* A PUT naming only the path has changed a stored item, and then a patch
\* naming only the name was applied to the object after the clock moved.
C27_Witness ==
    /\ mediaOp.op = "apply"
    /\ mediaOp.patch[1].name # None
    /\ mediaOp.patch[1].path = None
    /\ sharedMedia.name = "new-name.jpg"
    /\ sharedMedia.path = "/uploads/test.jpg"
    /\ sharedMedia.updated_at > sharedMedia.created_at
    /\ 1 \in DOMAIN media_store
    /\ media_store[1].name = "test.jpg"
    /\ media_store[1].path = "/uploads/new.jpg"

\* This step is a GET, PUT or DELETE of /v1/media/{id}.
MediaRequestStep == nOps' # nOps /\ mediaOp'.op \in {"get", "update", "delete"}

\* C28: in the in-memory store, get, update and delete of an id that is not
\* present return 404 and leave the store unchanged; once create (or an
\* update) has returned an item, get of its id returns that item, until a
\* delete of that id answers 204, after which get and another delete of the
\* id return 404.
C28_NotFoundAndLifecycle ==
    [][MediaRequestStep =>
         LET id == mediaOp'.id IN
         /\ id \notin DOMAIN media_store =>
              (mediaOp'.status = NOT_FOUND /\ media_store' = media_store)
         /\ (mediaOp'.op = "get" /\ id \in DOMAIN returned) =>
              (mediaOp'.status = OK /\ mediaOp'.body = Some(returned[id]) /\ media_store' = media_store)
         /\ (mediaOp'.op = "delete" /\ id \in DOMAIN returned) =>
              (mediaOp'.status = NO_CONTENT /\ id \notin DOMAIN media_store')
         /\ (mediaOp'.op \in {"get", "delete"} /\ id \in deleted) =>
              mediaOp'.status = NOT_FOUND]_vars

\* An item was created and deleted, and a later get or delete of its id was
\* answered 404.
C28_Witness ==
    /\ mediaOp.op \in {"get", "delete"}
    /\ mediaOp.id \in deleted
    /\ mediaOp.status = NOT_FOUND
    /\ mediaResp = CREATED


-----------------------------------------------------------------------------
(* Claims about handle_message over every kind of topic (SpecHandle) *)

\* The Envelope and the Reading of inbound message i, which decodes.
EnvelopeOf(i) == MqttMessageFromJson(inbox[i].payload.value).msg
ReadingOf(i) == SensorReadingFromJson(EnvelopeOf(i).payload).reading

\* C31: the sensor_type of every forwarded record is the last segment of the
\* topic its message arrived on; so two forwarded messages with the same
\* payload have the same sensor_type exactly when their topics end alike, and
\* two on the same topic have the same sensor_type whatever their Envelopes'
\* message_type.
C31_KindFromTopic ==
    /\ \A k \in DOMAIN posts :
          posts[k].record.sensor_type = inbox[posts[k].msg].topic[Len(inbox[posts[k].msg].topic)]
    /\ \A k, l \in DOMAIN posts :
          LET a == inbox[posts[k].msg]
              b == inbox[posts[l].msg]
          IN /\ (a.payload = b.payload /\ a.topic[Len(a.topic)] # b.topic[Len(b.topic)]) =>
                    posts[k].record.sensor_type # posts[l].record.sensor_type
             /\ a.topic = b.topic => posts[k].record.sensor_type = posts[l].record.sensor_type

\* C31 witness: the same Envelope was forwarded from a humidity topic and from
\* a motion topic, its message_type being that of neither.
C31_Witness ==
    /\ Len(posts) = 2
    /\ inbox[posts[1].msg].payload = inbox[posts[2].msg].payload
    /\ EnvelopeOf(posts[1].msg).message_type = "temperature_reading"
    /\ posts[1].record.sensor_type = "humidity"
    /\ posts[2].record.sensor_type = "motion"

\* C32: the unit of every forwarded record is that of the fixed table for its
\* sensor_type: "°C" for temperature, "%" for humidity, "bool" for motion and
\* the empty string for every other kind, whatever the Envelope and the
\* Reading are.
C32_UnitFromKind ==
    \A k \in DOMAIN posts :
        LET r == posts[k].record IN
        /\ r.sensor_type = "temperature" => r.unit = "°C"
        /\ r.sensor_type = "humidity" => r.unit = "%"
        /\ r.sensor_type = "motion" => r.unit = "bool"
        /\ r.sensor_type \notin {"temperature", "humidity", "motion"} => r.unit = ""

\* C32 witness: a record of kind temperature from an Envelope of message type
\* humidity_reading, and a record of a kind outside the table.
C32_Witness ==
    /\ Len(posts) = 2
    /\ posts[1].record.sensor_type = "temperature" /\ posts[1].record.unit = "°C"
    /\ EnvelopeOf(posts[1].msg).message_type = "humidity_reading"
    /\ posts[2].record.sensor_type = "pressure" /\ posts[2].record.unit = ""

\* C33: a message that decodes and whose Reading's value is no number has
\* exactly one POST, of a record with value 0.0 whose other fields are those
\* of the Envelope, the topic and the Reading as for any other message.
C33_UnparsedValueIsZero ==
    \A i \in DOMAIN inbox :
        (Decodes(inbox[i].payload) /\ ~ParseF64(ReadingOf(i).value).ok) =>
            /\ Cardinality(PostsOf(i)) = 1
            /\ \A k \in PostsOf(i) :
                  /\ posts[k].record.value = 0
                  /\ posts[k].record.device_id = EnvelopeOf(i).device_id
                  /\ posts[k].record.sensor_type = inbox[i].topic[Len(inbox[i].topic)]
                  /\ posts[k].record.unit = UnitFor(inbox[i].topic[Len(inbox[i].topic)])
                  /\ posts[k].record.timestamp = to_rfc3339(ReadingOf(i).timestamp)
                  /\ posts[k].record.metadata = ReadingOf(i).metadata

\* C33 witness: a Reading of value "abc" was forwarded with value 0.0, and its
\* POST has ended.
C33_Witness ==
    /\ Len(inbox) = 1 /\ gwPc = "poll" /\ postOutcome # None
    /\ Decodes(inbox[1].payload)
    /\ ReadingOf(1).value = ValueAbc
    /\ Len(posts) = 1 /\ posts[1].record.value = 0


-----------------------------------------------------------------------------
(* Further claims about the sensors (SpecSensors) *)

Abs(x) == IF x < 0 THEN -x ELSE x

\* C34: from one read to the next the temperature's running value moves by at
\* most 2.00 and the humidity's by at most 5.00, and a running value at a bound
\* of its interval has a change that takes it back inside.
C34_BoundedStep ==
    [][/\ Abs(sensors'.temperature.last_value - sensors.temperature.last_value) <= 200
       /\ Abs(sensors'.humidity.last_value - sensors.humidity.last_value) <= 500
       /\ sensors.temperature.last_value \in {1800, 3000} =>
            \E c \in TemperatureChanges :
                temperature_read(sensors.temperature, c, 0).self.last_value \in 1801..2999
       /\ sensors.humidity.last_value \in {3000, 8000} =>
            \E c \in HumidityChanges :
                humidity_read(sensors.humidity, c, 0).self.last_value \in 3001..7999]_vars

\* C34 witness: the temperature's running value is inside its interval at a
\* value that only a read from the lower bound gives (18.00 + 1.99), and the
\* humidity's has moved by the largest change each time.
C34_Witness ==
    /\ sensors.temperature.last_value = 1999
    /\ sensors.humidity.last_value = 5500 - 4 * 498


-----------------------------------------------------------------------------
(* Further claims about the gateway's connection (SpecLink) *)

\* A filter of the configuration matches the topic.
Configured(topic) == \E i \in DOMAIN parse_topics(mqtt_topics) : Matches(parse_topics(mqtt_topics)[i], topic)

\* C35 (as stated): once the gateway is connected again after a transport
\* error, with no subscribe request left to send, a publish on any topic its
\* configured filters match is routed to it.
C35_SubscribedAfterReconnect ==
    (linkPc = "loop" /\ network = "up" /\ nLinkErrors > 0 /\ requests = <<>>) =>
        \A topic \in AgentTopics : Configured(topic) => 0 \notin Copies(brokerSubs, topic)


-----------------------------------------------------------------------------
(* Claims about the gateway and its sink (SpecSink) *)

\* C36 (as stated): the handling of every inbound message ends and the loop
\* polls the broker connection again, whatever the sink does.
C36_HandlingTerminates == (gwPc = "post") ~> (gwPc = "poll")


-----------------------------------------------------------------------------
(* Further claims about the cache key (SpecCache) *)

\* C37 (as stated): records of different (device_id, sensor_type) pairs have
\* different keys, so that no write replaces the entry of another pair: the
\* entry a key holds after a write is of the pair it was of before.
C37_KeyInjective ==
    [][\A k \in DOMAIN redisStore \cap DOMAIN redisStore' :
          PairOf(SensorDataFromJson(redisStore'[k].json).data) = PairOf(Stored(k))]_vars


-----------------------------------------------------------------------------
(* Claims about concurrent media updates (SpecMediaDb) *)

\* The stored items of the backend in use.
MediaItems == IF db = "Some" THEN dbTable ELSE media_store

\* Both clients' PUT requests of the same id have been answered 200, one
\* naming only the name and the other only the path.
BothUpdated ==
    /\ \A c \in Clients : updates[c].pc = "done" /\ updates[c].status = OK
    /\ updates["a"].id = updates["b"].id
    /\ updates["a"].patch.name # None /\ updates["a"].patch.path = None
    /\ updates["b"].patch.name = None /\ updates["b"].patch.path # None

\* C38 (as stated): after two PUT requests of the same item, one naming only
\* the name and the other only the path, have both been answered 200, the item
\* has the new name and the new path, on either backend; and a PUT whose item
\* was deleted between its read and its write is answered 404.
C38_ConcurrentUpdatesBothApply ==
    /\ (BothUpdated /\ updates["a"].id \in DOMAIN MediaItems) =>
          /\ MediaItems[updates["a"].id].name = updates["a"].patch.name[1]
          /\ MediaItems[updates["a"].id].path = updates["b"].patch.path[1]
    /\ \A c \in Clients :
          (updates[c].pc = "done" /\ updates[c].gone) => updates[c].status = NOT_FOUND

====
